---- MODULE Spec2Model ----
(***************************************************************************)
(* Speaker attribution and segment reconstruction of selective-speaker.    *)
(*                                                                         *)
(* Spec      : map_enrollment_anchored (app/services/diarization_mapper.py)*)
(*             applied to bounded diarized word lists.                     *)
(* SpecMatch : match_speaker_to_enrollment and cosine_similarity           *)
(*             (app/services/speaker_verification.py) applied to bounded   *)
(*             dicts of label embeddings.                                  *)
(*                                                                         *)
(* SpecHook  : assemblyai_webhook (app/routes/webhooks.py): deliveries of  *)
(*             the completion event of one chunk, step by step, against    *)
(*             the segments and locations tables.                          *)
(* SpecEnroll: upload_enrollment and complete_enrollment                   *)
(*             (app/routes/enrollment.py) running get_inference_pipeline   *)
(*             on concurrent threads.                                      *)
(* SpecBuild : the two copies of the segment builder applied to the same  *)
(*             attributed words, and the first one applied again to the    *)
(*             words of the segments it kept.                              *)
(* SpecSpan  : extract_embeddings_per_speaker                              *)
(*             (app/services/speaker_verification.py) applied to bounded   *)
(*             word lists.                                                 *)
(* SpecLabel : map_enrollment_anchored on word lists of two labels, with   *)
(*             USE_MAJORITY_SPEAKER off and on.                            *)
(* SpecSubmit: process_chunk_transcription (app/routes/chunks.py) next to  *)
(*             the completion webhook of the transcript it submits.        *)
(* SpecAudio : get_utterance_audio and get_chunk_audio                     *)
(*             (app/routes/audio.py), one request.                         *)
(*                                                                         *)
(* Times are integer milliseconds.  A Python dict is a sequence of         *)
(* <<key, value>> pairs in insertion order.  A word is a record            *)
(* [start, end, speaker, text]; the confidence field only feeds avg_conf,  *)
(* a float no property below reads, and is left out.                       *)
(***************************************************************************)
EXTENDS Integers, Sequences, FiniteSets, TLC

VARIABLES
    stt_words,              \* argument of map_enrollment_anchored
    enroll_ms,              \* argument of map_enrollment_anchored
    PAD_MS,                 \* settings.PAD_MS
    USE_MAJORITY_SPEAKER,   \* settings.USE_MAJORITY_SPEAKER
    map_pc,                 \* "idle" | "call" | "done"
    map_result,             \* the MapResult returned
    user_words,             \* local user_words at return
    segments,               \* local segments (list of word lists) at return
    enrollment_embedding,   \* argument of match_speaker_to_enrollment
    speaker_embeddings,     \* argument: dict label -> embedding
    threshold,              \* argument, in hundredths
    match_pc,               \* "idle" | "call" | "returned" | "raised"
    match_result,           \* the label returned, or None
    HUGGINGFACE_TOKEN,      \* settings.HUGGINGFACE_TOKEN is set
    inference_pipeline,     \* global _inference_pipeline: <<>> for None, or <<handle>>
    loads,                  \* number of times Inference("pyannote/embedding") ran
    payload_status,         \* "status" of the webhook payload
    chunk_row,              \* <<chunk>> with this transcript_id, <<>> for None
    enrollment_row,         \* <<latest enrollment of the user>>, <<>> for None
    transcript_words,       \* words of the transcript at the provider
    audio_exists,           \* the chunk's audio file is on disk
    audio_embedding,        \* dict label -> embedding the audio yields
    db_segments,            \* committed rows of table segments
    db_locations,           \* committed rows of table locations
    hook_pc,                \* per delivery: position in assemblyai_webhook
    hook_session,           \* per delivery: a session_scope() is open
    hook_extracting,        \* per delivery: get_inference_pipeline was called
    hook_label,             \* per delivery: matched_speaker
    hook_kept,              \* per delivery: kept_segments
    hook_embeddings,        \* per delivery: speaker_embeddings
    hook_location,          \* per delivery: Location row added, uncommitted
    hook_response,          \* per delivery: response, or [http_error |-> code]
    req_kind,               \* per request: "upload" | "complete"
    req_audio,              \* per request: the enrollment audio is on disk
    req_pc,                 \* per request: position in the route
    req_session,            \* per request: a session_scope() is open
    req_extracting,         \* per request: extract_embedding is running
    req_handle,             \* per request: what get_inference_pipeline returned
    req_response,           \* per request: response, or [http_error |-> code]
    db_enrollments,         \* number of committed enrollment rows
    build_words,            \* attributed words given to both grouping loops
    build_pc,               \* "idle" | "call" | "mapper" | "done"
    mapper_segments,        \* segments of diarization_mapper.py:104-116
    webhook_segments,       \* segments of webhooks.py:193-208
    mapper_kept,            \* kept of diarization_mapper.py:119-144, region start 0
    webhook_kept,           \* kept_segments of webhooks.py:211-226
    refed_words,            \* the words of the segments kept by the mapper's builder
    refed_kept,             \* kept of the builder run again on refed_words
    span_words,             \* argument words_with_speakers
    span_min,               \* argument min_duration_ms
    span_pc,                \* "idle" | "call" | "done"
    span_calls,             \* calls of extract_embedding_from_segment: <<label, span>>
    span_embeddings,        \* the dict returned
    sub_file,               \* per chunk: the chunk's audio file exists
    sub_pc,                 \* per chunk: position of process_chunk_transcription
    sub_provider,           \* per chunk: the provider's transcript: <<>> or <<[id, status]>>
    sub_transcript_id,      \* per chunk: column chunks.transcript_id, <<>> when NULL
    sub_hook_pc,            \* per chunk: the completion webhook of its transcript
    sub_hook_response,      \* per chunk: what that webhook's lookup answered
    aud_user_id,            \* table users: uid -> <<id>>, <<>> when there is no such user
    aud_chunk_owner,        \* table chunks: id -> <<user_id>>, <<>> when missing
    aud_utterance_chunk,    \* table segments: id -> <<chunk_id>>, <<>> when missing
    aud_file,               \* per chunk id: the audio file exists
    aud_request,            \* [route, uid, id] of the request
    aud_pc,                 \* "idle" | "start" | "file" | "done"
    aud_response,           \* status code of the response, 0 before it
    aud_read                \* ids of the chunks whose audio file was read

mapVars == <<stt_words, enroll_ms, PAD_MS, USE_MAJORITY_SPEAKER, map_pc, map_result,
             user_words, segments>>

matchVars == <<enrollment_embedding, speaker_embeddings, threshold, match_pc,
               match_result>>

pipelineVars == <<HUGGINGFACE_TOKEN, inference_pipeline, loads>>

hookVars == <<payload_status, chunk_row, enrollment_row, transcript_words, audio_exists,
              audio_embedding, db_segments, db_locations, hook_pc, hook_session,
              hook_extracting, hook_embeddings, hook_label, hook_kept, hook_location,
              hook_response>>

enrollVars == <<req_kind, req_audio, req_pc, req_session, req_extracting, req_handle,
                req_response, db_enrollments>>

buildVars == <<build_words, build_pc, mapper_segments, webhook_segments, mapper_kept,
              webhook_kept, refed_words, refed_kept>>

spanVars == <<span_words, span_min, span_pc, span_calls, span_embeddings>>

submitVars == <<sub_file, sub_pc, sub_provider, sub_transcript_id, sub_hook_pc,
                sub_hook_response>>

audioVars == <<aud_user_id, aud_chunk_owner, aud_utterance_chunk, aud_file, aud_request,
               aud_pc, aud_response, aud_read>>

moreVars == <<spanVars, submitVars, audioVars>>

vars == <<mapVars, matchVars, pipelineVars, hookVars, enrollVars, buildVars, moreVars>>

(***************************************************************************)
(* Settings (app/config.py).  ENROLL_DOMINANCE = 0.8 is kept as the exact  *)
(* fraction EnrollDominanceNum / EnrollDominanceDen.                       *)
(***************************************************************************)
SEGMENT_GAP_MS == 500
SEGMENT_MIN_MS == 1000
SEGMENT_MIN_CHARS == 6
EnrollDominanceNum == 8
EnrollDominanceDen == 10

None == "None"

(***************************************************************************)
(* Python dicts in insertion order.                                        *)
(***************************************************************************)
Keys(d) == {d[i][1] : i \in DOMAIN d}

\* d[k] += v on a defaultdict(int)
DictAdd(d, k, v) ==
    IF k \in Keys(d)
    THEN [i \in DOMAIN d |-> IF d[i][1] = k THEN <<k, d[i][2] + v>> ELSE d[i]]
    ELSE Append(d, <<k, v>>)

\* max(d.items(), key=value): the first item, in iteration order, of maximal value
MaxItem(d) ==
    d[CHOOSE i \in DOMAIN d :
        /\ \A j \in DOMAIN d : d[j][2] <= d[i][2]
        /\ \A j \in DOMAIN d : j < i => d[j][2] < d[i][2]]

(***************************************************************************)
(* map_enrollment_anchored, step 1: the enrollment window.                 *)
(***************************************************************************)
\* variant: a word counts only when it ends inside the window
RECURSIVE LabelTimeLoop_WholeWord(_, _, _)
LabelTimeLoop_WholeWord(words, e, n) ==
    IF n = 0 THEN <<>>
    ELSE LET d == LabelTimeLoop_WholeWord(words, e, n - 1)
             w == words[n]
         IN  IF w.end <= e THEN DictAdd(d, w.speaker, w.end - w.start) ELSE d

\* label_time after the loop over the first n words
RECURSIVE LabelTimeLoop(_, _, _)
LabelTimeLoop(words, e, n) ==
    IF n = 0 THEN <<>>
    ELSE LET d == LabelTimeLoop(words, e, n - 1)
             w == words[n]
         IN  IF w.start < e THEN DictAdd(d, w.speaker, w.end - w.start) ELSE d

LabelTime(words, e) == LabelTimeLoop(words, e, Len(words))

\* variant: the product rounded up
DominanceThreshold_RoundUp(e) ==
    (EnrollDominanceNum * e + EnrollDominanceDen - 1) \div EnrollDominanceDen

\* int(ENROLL_DOM * enroll_ms): the float product truncated to an integer
DominanceThreshold(e) == (EnrollDominanceNum * e) \div EnrollDominanceDen

WeakDominance(dom_time, e) == dom_time < DominanceThreshold(e)

(***************************************************************************)
(* Step 2: the chunk region and the label looked for in it.                *)
(***************************************************************************)
ChunkStart(e, pad) == e + pad

RECURSIVE ChunkWordsLoop(_, _, _)
ChunkWordsLoop(words, chunk_start, n) ==
    IF n = 0 THEN <<>>
    ELSE LET d == ChunkWordsLoop(words, chunk_start, n - 1)
             w == words[n]
         IN  IF w.start >= chunk_start THEN DictAdd(d, w.speaker, 1) ELSE d

ChunkWordsBySpeaker(words, chunk_start) == ChunkWordsLoop(words, chunk_start, Len(words))

\* variant: among the labels with the most words, the last one encountered
ActualUserLabel_LastOfTies(words, user_label, chunk_start, majority) ==
    LET chunk_words_by_speaker == ChunkWordsBySpeaker(words, chunk_start)
    IN  IF majority /\ chunk_words_by_speaker /= <<>>
        THEN chunk_words_by_speaker[
                 CHOOSE i \in DOMAIN chunk_words_by_speaker :
                     /\ \A j \in DOMAIN chunk_words_by_speaker :
                           chunk_words_by_speaker[j][2] <= chunk_words_by_speaker[i][2]
                     /\ \A j \in DOMAIN chunk_words_by_speaker :
                           j > i => chunk_words_by_speaker[j][2] < chunk_words_by_speaker[i][2]][1]
        ELSE user_label

ActualUserLabel(words, user_label, chunk_start, majority) ==
    LET chunk_words_by_speaker == ChunkWordsBySpeaker(words, chunk_start)
    IN  IF majority /\ chunk_words_by_speaker /= <<>>
        THEN MaxItem(chunk_words_by_speaker)[1]
        ELSE user_label

\* variant: the label is not tested
IsUserWord_AnyLabel(w, label, chunk_start) == w.start >= chunk_start

IsUserWord(w, label, chunk_start) == w.speaker = label /\ w.start >= chunk_start

UserWords(words, label, chunk_start) ==
    LET Test(w) == IsUserWord(w, label, chunk_start)
    IN  SelectSeq(words, Test)

(***************************************************************************)
(* Step 3: grouping.  last_end is <<>> for None and <<t>> for the time t.  *)
(***************************************************************************)
\* variant: a gap equal to SEGMENT_GAP_MS splits
SameSegment_Strict(last_end, w) ==
    last_end = <<>> \/ (w.start - last_end[1]) < SEGMENT_GAP_MS

SameSegment(last_end, w) ==
    last_end = <<>> \/ (w.start - last_end[1]) <= SEGMENT_GAP_MS

GroupStep(st, w) ==
    IF SameSegment(st.last_end, w)
    THEN [segs |-> st.segs, cur |-> Append(st.cur, w), last_end |-> <<w.end>>]
    ELSE [segs |-> Append(st.segs, st.cur), cur |-> <<w>>, last_end |-> <<w.end>>]

RECURSIVE GroupLoop(_, _)
GroupLoop(ws, n) ==
    IF n = 0 THEN [segs |-> <<>>, cur |-> <<>>, last_end |-> <<>>]
    ELSE GroupStep(GroupLoop(ws, n - 1), ws[n])

GroupSegments(ws) ==
    LET st == GroupLoop(ws, Len(ws))
    IN  IF st.cur /= <<>> THEN Append(st.segs, st.cur) ELSE st.segs

(***************************************************************************)
(* Step 4: filtering and re-basing.                                        *)
(***************************************************************************)
\* " ".join(w["text"] for w in seg)
RECURSIVE JoinText(_, _)
JoinText(seg, n) ==
    IF n = 0 THEN ""
    ELSE IF n = 1 THEN seg[1].text
    ELSE JoinText(seg, n - 1) \o " " \o seg[n].text

SegText(seg) == JoinText(seg, Len(seg))

\* variant: the start is not re-based
SegStart_Absolute(seg, chunk_start) == seg[1].start

SegStart(seg, chunk_start) == seg[1].start - chunk_start

SegEnd(seg, chunk_start) == seg[Len(seg)].end - chunk_start

\* variant: one passing condition is enough
KeepSegment_Either(dur, text) == dur >= SEGMENT_MIN_MS \/ Len(text) >= SEGMENT_MIN_CHARS

KeepSegment(dur, text) == dur >= SEGMENT_MIN_MS /\ Len(text) >= SEGMENT_MIN_CHARS

RECURSIVE KeptLoop(_, _, _)
KeptLoop(segs, chunk_start, n) ==
    IF n = 0 THEN <<>>
    ELSE LET kept      == KeptLoop(segs, chunk_start, n - 1)
             seg       == segs[n]
             seg_start == SegStart(seg, chunk_start)
             seg_end   == SegEnd(seg, chunk_start)
             text      == SegText(seg)
         IN  IF KeepSegment(seg_end - seg_start, text)
             THEN Append(kept, [start_ms |-> seg_start, end_ms |-> seg_end, text |-> text])
             ELSE kept

Kept(segs, chunk_start) == KeptLoop(segs, chunk_start, Len(segs))

(***************************************************************************)
(* The three ways map_enrollment_anchored returns.                         *)
(***************************************************************************)
ReturnNoEnrollmentWords ==
    /\ map_pc = "call"
    /\ LabelTime(stt_words, enroll_ms) = <<>>
    /\ map_result' = [status |-> "indeterminate", reason |-> "no_enrollment_words"]
    /\ map_pc' = "done"
    /\ UNCHANGED <<stt_words, enroll_ms, PAD_MS, USE_MAJORITY_SPEAKER, user_words, segments>>
    /\ UNCHANGED <<matchVars, pipelineVars, hookVars, enrollVars, buildVars, moreVars>>

ReturnWeakDominance ==
    /\ map_pc = "call"
    /\ LET label_time == LabelTime(stt_words, enroll_ms)
       IN  /\ label_time /= <<>>
           /\ LET dom == MaxItem(label_time)
              IN  /\ WeakDominance(dom[2], enroll_ms)
                  /\ map_result' = [status |-> "indeterminate",
                                    reason |-> "weak_enrollment_dominance",
                                    user_label |-> dom[1]]
    /\ map_pc' = "done"
    /\ UNCHANGED <<stt_words, enroll_ms, PAD_MS, USE_MAJORITY_SPEAKER, user_words, segments>>
    /\ UNCHANGED <<matchVars, pipelineVars, hookVars, enrollVars, buildVars, moreVars>>

\* variant: an empty kept list is reported as indeterminate
ReturnOk_EmptyIsIndeterminate ==
    /\ map_pc = "call"
    /\ LET label_time == LabelTime(stt_words, enroll_ms)
       IN  /\ label_time /= <<>>
           /\ LET dom         == MaxItem(label_time)
                  chunk_start == ChunkStart(enroll_ms, PAD_MS)
                  label       == ActualUserLabel(stt_words, dom[1], chunk_start,
                                                 USE_MAJORITY_SPEAKER)
                  uw          == UserWords(stt_words, label, chunk_start)
                  segs        == GroupSegments(uw)
                  kept        == Kept(segs, chunk_start)
              IN  /\ ~WeakDominance(dom[2], enroll_ms)
                  /\ user_words' = uw
                  /\ segments' = segs
                  /\ map_result' = IF kept = <<>>
                                   THEN [status |-> "indeterminate", reason |-> "no_user_speech",
                                         user_label |-> label]
                                   ELSE [status |-> "ok", user_label |-> label, kept |-> kept]
    /\ map_pc' = "done"
    /\ UNCHANGED <<stt_words, enroll_ms, PAD_MS, USE_MAJORITY_SPEAKER>>
    /\ UNCHANGED <<matchVars, pipelineVars, hookVars, enrollVars, buildVars, moreVars>>

ReturnOk ==
    /\ map_pc = "call"
    /\ LET label_time == LabelTime(stt_words, enroll_ms)
       IN  /\ label_time /= <<>>
           /\ LET dom               == MaxItem(label_time)
                  chunk_start       == ChunkStart(enroll_ms, PAD_MS)
                  actual_user_label == ActualUserLabel(stt_words, dom[1], chunk_start,
                                                       USE_MAJORITY_SPEAKER)
                  uw                == UserWords(stt_words, actual_user_label, chunk_start)
                  segs              == GroupSegments(uw)
              IN  /\ ~WeakDominance(dom[2], enroll_ms)
                  /\ user_words' = uw
                  /\ segments' = segs
                  /\ map_result' = [status |-> "ok",
                                    user_label |-> actual_user_label,
                                    kept |-> Kept(segs, chunk_start)]
    /\ map_pc' = "done"
    /\ UNCHANGED <<stt_words, enroll_ms, PAD_MS, USE_MAJORITY_SPEAKER>>
    /\ UNCHANGED <<matchVars, pipelineVars, hookVars, enrollVars, buildVars, moreVars>>

(***************************************************************************)
(* Inputs of map_enrollment_anchored.                                      *)
(***************************************************************************)
MaxWords == 3
MaxSubjectWords == 4

Word(s, e, spk, t) == [start |-> s, end |-> e, speaker |-> spk, text |-> t]

SeqsUpTo(S, n) == UNION {[1..k -> S] : k \in 0..n}

Speakers == {"A", "B"}
Texts == {"Hi", "Hello!"}

\* word lists in any order, two labels, in and after the enrollment window
GeneralSpans == {<<0, 500>>, <<0, 1000>>, <<1000, 1500>>, <<1250, 2250>>,
                 <<1500, 2500>>, <<2500, 3500>>, <<3000, 3500>>}
GeneralWords == {Word(sp[1], sp[2], spk, "Hello!") : sp \in GeneralSpans, spk \in Speakers}
GeneralLists == SeqsUpTo(GeneralWords, MaxWords)

\* one dominant enrollment word, then words of that label in any order
SubjectSpans == {<<1500, 2000>>, <<2500, 3500>>, <<3000, 4000>>, <<4500, 5000>>,
                 <<5500, 6500>>}
SubjectWords == {Word(sp[1], sp[2], "A", t) : sp \in SubjectSpans, t \in Texts}
AnchoredLists == {<<Word(0, 1000, "A", "Hello!")>> \o s : s \in SeqsUpTo(SubjectWords, MaxSubjectWords)}

\* the word lists of tests/test_diarization_mapper.py (enroll_ms = 3000)
TestEnrollment ==
    << Word(0, 500, "SPEAKER_00", "This"), Word(500, 1000, "SPEAKER_00", "is"),
       Word(1000, 1500, "SPEAKER_00", "my"), Word(1500, 2200, "SPEAKER_00", "voice"),
       Word(2200, 3000, "SPEAKER_00", "sample") >>
TestKeepsUserSegments ==
    TestEnrollment \o
    << Word(4100, 4600, "SPEAKER_00", "Hello"), Word(4700, 5300, "SPEAKER_01", "(other)"),
       Word(5400, 6000, "SPEAKER_00", "world"), Word(6500, 7000, "SPEAKER_00", "again") >>
TestRejectsWeakEnrollment ==
    << Word(0, 500, "SPEAKER_00", "I"),
       Word(500, 2500, "SPEAKER_01", "someone else talking"),
       Word(2500, 3000, "SPEAKER_00", "me") >>
TestNoUserSpeechInChunk ==
    << Word(0, 3000, "SPEAKER_00", "enrollment text"),
       Word(4100, 5000, "SPEAKER_01", "other person") >>
TestFiltersShortSegments ==
    << Word(0, 3000, "SPEAKER_00", "enrollment"),
       Word(4100, 4300, "SPEAKER_00", "ok"),
       Word(5000, 6500, "SPEAKER_00", "this message is valid") >>
TestLists == {TestKeepsUserSegments, TestRejectsWeakEnrollment,
              TestNoUserSpeechInChunk, TestFiltersShortSegments}

MapIdle ==
    /\ stt_words = <<>>
    /\ enroll_ms = 0
    /\ PAD_MS = 0
    /\ USE_MAJORITY_SPEAKER = FALSE
    /\ map_pc = "idle"
    /\ map_result = [status |-> "none"]
    /\ user_words = <<>>
    /\ segments = <<>>

MatchIdle ==
    /\ enrollment_embedding = <<>>
    /\ speaker_embeddings = <<>>
    /\ threshold = 0
    /\ match_pc = "idle"
    /\ match_result = None

PipelineIdle ==
    /\ HUGGINGFACE_TOKEN = FALSE
    /\ inference_pipeline = <<>>
    /\ loads = 0

HookIdle ==
    /\ payload_status = None
    /\ chunk_row = <<>>
    /\ enrollment_row = <<>>
    /\ transcript_words = <<>>
    /\ audio_exists = FALSE
    /\ audio_embedding = <<>>
    /\ db_segments = <<>>
    /\ db_locations = <<>>
    /\ hook_pc = <<>>
    /\ hook_session = <<>>
    /\ hook_extracting = <<>>
    /\ hook_label = <<>>
    /\ hook_kept = <<>>
    /\ hook_embeddings = <<>>
    /\ hook_location = <<>>
    /\ hook_response = <<>>

EnrollIdle ==
    /\ req_kind = <<>>
    /\ req_audio = <<>>
    /\ req_pc = <<>>
    /\ req_session = <<>>
    /\ req_extracting = <<>>
    /\ req_handle = <<>>
    /\ req_response = <<>>
    /\ db_enrollments = 0

BuildIdle ==
    /\ build_words = <<>>
    /\ build_pc = "idle"
    /\ mapper_segments = <<>>
    /\ webhook_segments = <<>>
    /\ mapper_kept = <<>>
    /\ webhook_kept = <<>>
    /\ refed_words = <<>>
    /\ refed_kept = <<>>

SpanIdle ==
    /\ span_words = <<>>
    /\ span_min = 0
    /\ span_pc = "idle"
    /\ span_calls = <<>>
    /\ span_embeddings = <<>>

SubmitIdle ==
    /\ sub_file = <<>>
    /\ sub_pc = <<>>
    /\ sub_provider = <<>>
    /\ sub_transcript_id = <<>>
    /\ sub_hook_pc = <<>>
    /\ sub_hook_response = <<>>

AudioIdle ==
    /\ aud_user_id = <<>>
    /\ aud_chunk_owner = <<>>
    /\ aud_utterance_chunk = <<>>
    /\ aud_file = <<>>
    /\ aud_request = <<>>
    /\ aud_pc = "idle"
    /\ aud_response = 0
    /\ aud_read = {}

MoreIdle == SpanIdle /\ SubmitIdle /\ AudioIdle

Init ==
    /\ \/ /\ stt_words \in GeneralLists
          /\ enroll_ms \in {1250, 1251}
          /\ PAD_MS \in {0, 1000}
          /\ USE_MAJORITY_SPEAKER \in BOOLEAN
       \/ /\ stt_words \in AnchoredLists
          /\ enroll_ms = 1250
          /\ PAD_MS \in {0, 1000}
          /\ USE_MAJORITY_SPEAKER = FALSE
       \/ /\ stt_words \in TestLists
          /\ enroll_ms = 3000
          /\ PAD_MS \in {0, 1000}
          /\ USE_MAJORITY_SPEAKER \in BOOLEAN
    /\ map_pc = "call"
    /\ map_result = [status |-> "none"]
    /\ user_words = <<>>
    /\ segments = <<>>
    /\ MatchIdle
    /\ PipelineIdle
    /\ HookIdle
    /\ EnrollIdle
    /\ BuildIdle
    /\ MoreIdle

Next ==
    \/ ReturnNoEnrollmentWords
    \/ ReturnWeakDominance
    \/ ReturnOk

Spec == Init /\ [][Next]_vars

(***************************************************************************)
(* cosine_similarity and match_speaker_to_enrollment.                      *)
(*                                                                         *)
(* An embedding is a pair of integers whose norm is an integer, so that    *)
(* every similarity is an exact number of hundredths; for the vectors of   *)
(* Embeddings the double the code computes is the double of that decimal.  *)
(* A float is [nan |-> TRUE] or [nan |-> FALSE, v |-> hundredths]; the     *)
(* threshold and best_score are never NaN and are plain hundredths.        *)
(***************************************************************************)
Dot(a, b) == a[1] * b[1] + a[2] * b[2]

\* np.linalg.norm
Norm(a) == CHOOSE n \in 0..(Dot(a, a)) : n * n = Dot(a, a)

NaN == [nan |-> TRUE]

\* a division by a zero norm yields NaN components (numpy warns, it does not raise)
CosineSimilarity(embedding1, embedding2) ==
    IF Norm(embedding1) = 0 \/ Norm(embedding2) = 0
    THEN NaN
    ELSE [nan |-> FALSE,
          v   |-> (100 * Dot(embedding1, embedding2)) \div (Norm(embedding1) * Norm(embedding2))]

\* variant: an equal score also replaces the best
Better_OrEqual(similarity, best_score) == ~similarity.nan /\ similarity.v >= best_score

\* similarity > best_score; a comparison with NaN is false
Better(similarity, best_score) == ~similarity.nan /\ similarity.v > best_score

MatchStep(st, item, enrollment) ==
    LET similarity == CosineSimilarity(enrollment, item[2])
    IN  [best_match   |-> IF Better(similarity, st.best_score) THEN item[1] ELSE st.best_match,
         best_score   |-> IF Better(similarity, st.best_score) THEN similarity.v ELSE st.best_score,
         similarities |-> Append(st.similarities, <<item[1], similarity>>)]

RECURSIVE MatchLoop(_, _, _, _)
MatchLoop(enrollment, d, thr, n) ==
    IF n = 0 THEN [best_match |-> None, best_score |-> thr, similarities |-> <<>>]
    ELSE MatchStep(MatchLoop(enrollment, d, thr, n - 1), d[n], enrollment)

MatchSpeakerToEnrollment(enrollment, d, thr) == MatchLoop(enrollment, d, thr, Len(d))

\* return best_match, after the log line of the branch taken
MatchReturn ==
    /\ match_pc = "call"
    /\ LET st == MatchSpeakerToEnrollment(enrollment_embedding, speaker_embeddings, threshold)
       IN  /\ st.best_match /= None \/ st.similarities /= <<>>
           /\ match_result' = st.best_match
    /\ match_pc' = "returned"
    /\ UNCHANGED <<enrollment_embedding, speaker_embeddings, threshold>>
    /\ UNCHANGED <<mapVars, pipelineVars, hookVars, enrollVars, buildVars, moreVars>>

\* no match and no similarity: max(similarities.values()) raises ValueError
MatchRaise ==
    /\ match_pc = "call"
    /\ LET st == MatchSpeakerToEnrollment(enrollment_embedding, speaker_embeddings, threshold)
       IN  st.best_match = None /\ st.similarities = <<>>
    /\ match_pc' = "raised"
    /\ UNCHANGED <<enrollment_embedding, speaker_embeddings, threshold, match_result>>
    /\ UNCHANGED <<mapVars, pipelineVars, hookVars, enrollVars, buildVars, moreVars>>

(***************************************************************************)
(* Inputs of match_speaker_to_enrollment.                                  *)
(***************************************************************************)
MaxSpeakers == 3

Labels == {"A", "B", "C"}

Embeddings == {<<1, 0>>, <<0, 1>>, <<3, 4>>, <<4, 3>>, <<-1, 0>>, <<5, 0>>, <<0, 0>>}

\* 0.25 at the webhook's call, the default 0.65, and two values a similarity can equal
Thresholds == {25, 65, 60, 96}

IsDict(d) == \A i \in DOMAIN d : \A j \in DOMAIN d : d[i][1] = d[j][1] => i = j

Dicts == {d \in SeqsUpTo(Labels \X Embeddings, MaxSpeakers) : IsDict(d)}

InitMatch ==
    /\ MapIdle
    /\ enrollment_embedding \in Embeddings
    /\ speaker_embeddings \in Dicts
    /\ threshold \in Thresholds
    /\ match_pc = "call"
    /\ match_result = None
    /\ PipelineIdle
    /\ HookIdle
    /\ EnrollIdle
    /\ BuildIdle
    /\ MoreIdle

NextMatch ==
    \/ MatchReturn
    \/ MatchRaise

SpecMatch == InitMatch /\ [][NextMatch]_vars

(***************************************************************************)
(* get_inference_pipeline, run in one step by a caller that nothing        *)
(* interleaves with.  A handle is the number of the load that made it.     *)
(* The result is [raised, pipeline, loads].                                *)
(***************************************************************************)
\* variant: the pipeline is loaded without a token
GetInferencePipeline_NoTokenCheck(pipeline, token, n) ==
    IF pipeline /= <<>>
    THEN [raised |-> FALSE, pipeline |-> pipeline, loads |-> n]
    ELSE [raised |-> FALSE, pipeline |-> <<n + 1>>, loads |-> n + 1]

GetInferencePipeline(pipeline, token, n) ==
    IF pipeline /= <<>>
    THEN [raised |-> FALSE, pipeline |-> pipeline, loads |-> n]
    ELSE IF ~token
         THEN [raised |-> TRUE, pipeline |-> <<>>, loads |-> n]
         ELSE [raised |-> FALSE, pipeline |-> <<n + 1>>, loads |-> n + 1]

(***************************************************************************)
(* extract_embeddings_per_speaker.                                         *)
(***************************************************************************)
SPAN_GAP_MS == 1000

\* speaker_segments[speaker].append(word), on a dict of lists
DictAppend(d, k, v) ==
    IF k \in Keys(d)
    THEN [i \in DOMAIN d |-> IF d[i][1] = k THEN <<k, Append(d[i][2], v)>> ELSE d[i]]
    ELSE Append(d, <<k, <<v>>>>)

RECURSIVE SpeakerSegmentsLoop(_, _)
SpeakerSegmentsLoop(words, n) ==
    IF n = 0 THEN <<>>
    ELSE DictAppend(SpeakerSegmentsLoop(words, n - 1), words[n].speaker, words[n])

SpeakerSegments(words) == SpeakerSegmentsLoop(words, Len(words))

\* the comparison that closes a span: duration > longest_duration
LongerSpan(st) ==
    IF st.current_segment_end - st.current_segment_start > st.longest_duration
    THEN [st EXCEPT !.longest_segment = <<st.current_segment_start, st.current_segment_end>>,
                    !.longest_duration = st.current_segment_end - st.current_segment_start]
    ELSE st

LongestStep(st, w) ==
    IF w.start - st.current_segment_end < SPAN_GAP_MS
    THEN [st EXCEPT !.current_segment_end = w.end]
    ELSE [LongerSpan(st) EXCEPT !.current_segment_start = w.start,
                                !.current_segment_end = w.end]

RECURSIVE LongestLoop(_, _)
LongestLoop(words, n) ==
    IF n = 1
    THEN [current_segment_start |-> words[1].start,
          current_segment_end   |-> words[1].end,
          longest_segment       |-> <<words[1].start, words[1].end>>,
          longest_duration      |-> words[1].end - words[1].start]
    ELSE LongestStep(LongestLoop(words, n - 1), words[n])

\* words is one speaker's non-empty list
LongestSpan(words) == LongerSpan(LongestLoop(words, Len(words)))

\* the speakers, in dict order, whose longest span is long enough
RECURSIVE LongEnoughLoop(_, _, _)
LongEnoughLoop(speaker_segments, min_duration_ms, n) ==
    IF n = 0 THEN <<>>
    ELSE LET rest == LongEnoughLoop(speaker_segments, min_duration_ms, n - 1)
             item == speaker_segments[n]
         IN  IF LongestSpan(item[2]).longest_duration >= min_duration_ms
             THEN Append(rest, item[1])
             ELSE rest

LongEnough(words, min_duration_ms) ==
    LongEnoughLoop(SpeakerSegments(words), min_duration_ms, Len(SpeakerSegments(words)))

\* audio[speaker]: what extract_embedding_from_segment computes on the speaker's span
EmbeddingOf(audio, speaker) ==
    audio[CHOOSE i \in DOMAIN audio : audio[i][1] = speaker][2]

\* result: [raised, speaker_embeddings, pipeline, loads]; the first speaker with a
\* long enough span makes the first call of get_inference_pipeline
ExtractEmbeddingsPerSpeaker(audio, words, min_duration_ms, pipeline, token, n) ==
    LET speakers == LongEnough(words, min_duration_ms)
        got      == GetInferencePipeline(pipeline, token, n)
    IN  IF speakers = <<>>
        THEN [raised |-> FALSE, speaker_embeddings |-> <<>>,
              pipeline |-> pipeline, loads |-> n]
        ELSE IF got.raised
             THEN [raised |-> TRUE, speaker_embeddings |-> <<>>,
                   pipeline |-> got.pipeline, loads |-> got.loads]
             ELSE [raised |-> FALSE,
                   speaker_embeddings |->
                       [i \in DOMAIN speakers |-> <<speakers[i], EmbeddingOf(audio, speakers[i])>>],
                   pipeline |-> got.pipeline, loads |-> got.loads]

(***************************************************************************)
(* The segment builder inside assemblyai_webhook (webhooks.py:189-227).    *)
(***************************************************************************)
\* variant: words of every speaker are kept
IsMatchedWord_AnySpeaker(w, matched_speaker) == TRUE

IsMatchedWord(w, matched_speaker) == w.speaker = matched_speaker

HookUserWords(words, matched_speaker) ==
    LET Test(w) == IsMatchedWord(w, matched_speaker)
    IN  SelectSeq(words, Test)

\* variant: a gap equal to GAP_MS splits
HookSameSegment_Strict(current_segment, word) ==
    word.start - current_segment[Len(current_segment)].end < SEGMENT_GAP_MS

HookSameSegment(current_segment, word) ==
    word.start - current_segment[Len(current_segment)].end <= SEGMENT_GAP_MS

HookGroupStep(st, word) ==
    IF st.current_segment = <<>>
    THEN [st EXCEPT !.current_segment = <<word>>]
    ELSE IF HookSameSegment(st.current_segment, word)
         THEN [st EXCEPT !.current_segment = Append(st.current_segment, word)]
         ELSE [segments |-> Append(st.segments, st.current_segment),
               current_segment |-> <<word>>]

RECURSIVE HookGroupLoop(_, _)
HookGroupLoop(ws, n) ==
    IF n = 0 THEN [segments |-> <<>>, current_segment |-> <<>>]
    ELSE HookGroupStep(HookGroupLoop(ws, n - 1), ws[n])

HookGroupSegments(ws) ==
    LET st == HookGroupLoop(ws, Len(ws))
    IN  IF st.current_segment /= <<>>
        THEN Append(st.segments, st.current_segment)
        ELSE st.segments

\* variant: the length of the text is not tested
HookKeepSegment_DurationOnly(duration, text) == duration >= SEGMENT_MIN_MS

HookKeepSegment(duration, text) ==
    duration >= SEGMENT_MIN_MS /\ Len(text) >= SEGMENT_MIN_CHARS

RECURSIVE HookKeptLoop(_, _)
HookKeptLoop(segs, n) ==
    IF n = 0 THEN <<>>
    ELSE LET kept_segments == HookKeptLoop(segs, n - 1)
             seg           == segs[n]
             start_ms      == seg[1].start
             end_ms        == seg[Len(seg)].end
             text          == JoinText(seg, Len(seg))
         IN  IF HookKeepSegment(end_ms - start_ms, text)
             THEN Append(kept_segments,
                         [start_ms |-> start_ms, end_ms |-> end_ms, text |-> text])
             ELSE kept_segments

HookKeptSegments(segs) == HookKeptLoop(segs, Len(segs))


(***************************************************************************)
(* assemblyai_webhook, one delivery d of the event of one transcript.      *)
(* ASSEMBLYAI_WEBHOOK_SECRET has its default "devsecret", so the signature *)
(* check of lines 53-56 is off.  A delivery stops at each await and at     *)
(* each session boundary; between two stops any other delivery may run.    *)
(* A response is the dict returned, or [http_error, detail] for the        *)
(* exception that ended the request.                                       *)
(***************************************************************************)
MaxDeliveries == 2

Deliveries == 1..MaxDeliveries

\* min_duration_ms=1000 and threshold=0.25 at the webhook's calls
HOOK_MIN_DURATION_MS == 1000
HOOK_THRESHOLD == 25

hookInputs == <<payload_status, chunk_row, enrollment_row, transcript_words, audio_exists,
                audio_embedding>>

hookLocals == <<hook_session, hook_extracting, hook_embeddings, hook_label, hook_kept,
               hook_location>>

HttpError(code, detail) == [http_error |-> code, detail |-> detail]

\* the request of delivery d ends with response r
HookEnds(d, r) ==
    /\ hook_response' = [hook_response EXCEPT ![d] = r]
    /\ hook_pc' = [hook_pc EXCEPT ![d] = "done"]

HookGoes(d, pc) ==
    /\ hook_pc' = [hook_pc EXCEPT ![d] = pc]
    /\ UNCHANGED hook_response

\* lines 58-72
Receive(d) ==
    /\ hook_pc[d] = "start"
    /\ IF payload_status /= "completed"
       THEN HookEnds(d, [status |-> "ignored",
                         reason |-> "transcript_status_" \o payload_status,
                         transcript_id |-> "t1"])
       ELSE HookGoes(d, "lookup")
    /\ UNCHANGED <<hookInputs, hookLocals, db_segments, db_locations>>
    /\ UNCHANGED <<mapVars, matchVars, pipelineVars, enrollVars, buildVars, moreVars>>

\* variant: no idempotency check
Lookup_NoExistenceCheck(d) ==
    /\ hook_pc[d] = "lookup"
    /\ IF chunk_row = <<>>
       THEN HookEnds(d, HttpError(404, "no_chunk"))
       ELSE IF enrollment_row = <<>>
       THEN HookEnds(d, HttpError(404, "no_enrollment"))
       ELSE IF enrollment_row[1].embedding_vector = <<>>
       THEN HookEnds(d, HttpError(500, "no_embedding_vector"))
       ELSE HookGoes(d, "fetch")
    /\ UNCHANGED <<hookInputs, hookLocals, db_segments, db_locations>>
    /\ UNCHANGED <<mapVars, matchVars, pipelineVars, enrollVars, buildVars, moreVars>>

\* variant: the event counts as processed once a delivery of it has ended ok
Lookup_AnyDeliveryEndedOk(d) ==
    /\ hook_pc[d] = "lookup"
    /\ IF chunk_row = <<>>
       THEN HookEnds(d, HttpError(404, "no_chunk"))
       ELSE IF \E e \in Deliveries : hook_pc[e] = "done" /\ "kept_count" \in DOMAIN hook_response[e]
       THEN HookEnds(d, [status |-> "already_processed",
                         chunk_id |-> chunk_row[1].id,
                         existing_segments |-> Len(db_segments),
                         transcript_id |-> "t1"])
       ELSE IF enrollment_row = <<>>
       THEN HookEnds(d, HttpError(404, "no_enrollment"))
       ELSE IF enrollment_row[1].embedding_vector = <<>>
       THEN HookEnds(d, HttpError(500, "no_embedding_vector"))
       ELSE HookGoes(d, "fetch")
    /\ UNCHANGED <<hookInputs, hookLocals, db_segments, db_locations>>
    /\ UNCHANGED <<mapVars, matchVars, pipelineVars, enrollVars, buildVars, moreVars>>

\* lines 75-122: the lookup session, opened and closed inside the step
Lookup(d) ==
    /\ hook_pc[d] = "lookup"
    /\ IF chunk_row = <<>>
       THEN HookEnds(d, HttpError(404, "no_chunk"))
       ELSE IF Len(db_segments) > 0
       THEN HookEnds(d, [status |-> "already_processed",
                         chunk_id |-> chunk_row[1].id,
                         existing_segments |-> Len(db_segments),
                         transcript_id |-> "t1"])
       ELSE IF enrollment_row = <<>>
       THEN HookEnds(d, HttpError(404, "no_enrollment"))
       ELSE IF enrollment_row[1].embedding_vector = <<>>
       THEN HookEnds(d, HttpError(500, "no_embedding_vector"))
       ELSE HookGoes(d, "fetch")
    /\ UNCHANGED <<hookInputs, hookLocals, db_segments, db_locations>>
    /\ UNCHANGED <<mapVars, matchVars, pipelineVars, enrollVars, buildVars, moreVars>>

\* variant: a transcript without words is an error
Fetch_NoWordsFails(d) ==
    /\ hook_pc[d] = "fetch"
    /\ \E fetched \in BOOLEAN :
          IF ~fetched
          THEN HookEnds(d, HttpError(500, "fetch_failed"))
          ELSE IF transcript_words = <<>>
          THEN HookEnds(d, HttpError(500, "no_words"))
          ELSE IF ~audio_exists
          THEN HookEnds(d, HttpError(404, "no_audio"))
          ELSE HookGoes(d, "extract")
    /\ UNCHANGED <<hookInputs, hookLocals, db_segments, db_locations>>
    /\ UNCHANGED <<mapVars, matchVars, pipelineVars, enrollVars, buildVars, moreVars>>

\* lines 130-159: get_transcription answers or fails; extract_diarized_words
Fetch(d) ==
    /\ hook_pc[d] = "fetch"
    /\ \E fetched \in BOOLEAN :
          IF ~fetched
          THEN HookEnds(d, HttpError(500, "fetch_failed"))
          ELSE IF transcript_words = <<>>
          THEN HookEnds(d, [status |-> "ignored", reason |-> "no_words",
                            chunk_id |-> chunk_row[1].id])
          ELSE IF ~audio_exists
          THEN HookEnds(d, HttpError(404, "no_audio"))
          ELSE HookGoes(d, "extract")
    /\ UNCHANGED <<hookInputs, hookLocals, db_segments, db_locations>>
    /\ UNCHANGED <<mapVars, matchVars, pipelineVars, enrollVars, buildVars, moreVars>>

\* lines 161-229: embeddings, match, segments; the ValueError of
\* get_inference_pipeline is not caught and ends the request with a 500
Extract(d) ==
    /\ hook_pc[d] = "extract"
    /\ LET got == ExtractEmbeddingsPerSpeaker(audio_embedding, transcript_words,
                                              HOOK_MIN_DURATION_MS, inference_pipeline,
                                              HUGGINGFACE_TOKEN, loads)
           matched_speaker ==
               MatchSpeakerToEnrollment(enrollment_row[1].embedding_vector,
                                        got.speaker_embeddings, HOOK_THRESHOLD).best_match
           kept_segments ==
               HookKeptSegments(HookGroupSegments(HookUserWords(transcript_words,
                                                                matched_speaker)))
       IN  /\ inference_pipeline' = got.pipeline
           /\ loads' = got.loads
           /\ hook_extracting' = [hook_extracting EXCEPT
                                     ![d] = LongEnough(transcript_words,
                                                       HOOK_MIN_DURATION_MS) /= <<>>]
           /\ hook_embeddings' = [hook_embeddings EXCEPT ![d] = got.speaker_embeddings]
           /\ IF got.raised
              THEN /\ HookEnds(d, HttpError(500, "model_unavailable"))
                   /\ UNCHANGED <<hook_label, hook_kept>>
              ELSE IF got.speaker_embeddings = <<>>
              THEN /\ HookEnds(d, [status |-> "ignored", reason |-> "no_valid_speakers",
                                   chunk_id |-> chunk_row[1].id])
                   /\ UNCHANGED <<hook_label, hook_kept>>
              ELSE IF matched_speaker = None
              THEN /\ HookEnds(d, [status |-> "ignored", reason |-> "no_matching_speaker",
                                   chunk_id |-> chunk_row[1].id])
                   /\ UNCHANGED <<hook_label, hook_kept>>
              ELSE /\ HookGoes(d, "persist")
                   /\ hook_label' = [hook_label EXCEPT ![d] = matched_speaker]
                   /\ hook_kept' = [hook_kept EXCEPT ![d] = kept_segments]
    /\ UNCHANGED <<hookInputs, hook_session, hook_location, db_segments, db_locations>>
    /\ UNCHANGED HUGGINGFACE_TOKEN
    /\ UNCHANGED <<mapVars, matchVars, enrollVars, buildVars, moreVars>>


\* models.Segment(...) of lines 241-249, one row per kept segment
SegmentRow(chunk_id, user_label, seg) ==
    [chunk_id |-> chunk_id, speaker_label |-> user_label, start_ms |-> seg.start_ms,
     end_ms |-> seg.end_ms, text |-> seg.text, kept |-> TRUE]

SegmentRows(chunk_id, user_label, kept_segments) ==
    [i \in DOMAIN kept_segments |-> SegmentRow(chunk_id, user_label, kept_segments[i])]

\* models.Location(...) of lines 262-266
LocationRow(chunk_id, address) ==
    [chunk_id |-> chunk_id, address |-> address, source |-> "geocoder"]

HookOk(d) ==
    [status |-> "ok", chunk_id |-> chunk_row[1].id, kept_count |-> Len(hook_kept[d]),
     user_label |-> hook_label[d], transcript_id |-> "t1"]

\* lines 232-258: the persist session opens, the segments are added; with GPS
\* coordinates and no location row the request awaits reverse_geocode with the
\* session open, otherwise the session commits and the request returns
Persist(d) ==
    /\ hook_pc[d] = "persist"
    /\ IF chunk_row[1].gps /\ db_locations = <<>>
       THEN /\ HookGoes(d, "geocode")
            /\ hook_session' = [hook_session EXCEPT ![d] = TRUE]
            /\ UNCHANGED db_segments
       ELSE /\ HookEnds(d, HookOk(d))
            /\ db_segments' = db_segments \o SegmentRows(chunk_row[1].id, hook_label[d],
                                                         hook_kept[d])
            /\ UNCHANGED hook_session
    /\ UNCHANGED <<hookInputs, hook_extracting, hook_embeddings, hook_label, hook_kept,
                   hook_location, db_locations>>
    /\ UNCHANGED <<mapVars, matchVars, pipelineVars, enrollVars, buildVars, moreVars>>

\* what reverse_geocode does: an address, None, or an exception (caught at line 269)
GeocodeOutcomes == {"address", None, "raises"}

\* variant: an exception of reverse_geocode is not caught and rolls the session back
Geocode_RaiseEscapes(d) ==
    /\ hook_pc[d] = "geocode"
    /\ \E outcome \in GeocodeOutcomes :
          LET added == outcome = "address"
          IN  /\ hook_location' = [hook_location EXCEPT ![d] = added]
              /\ IF outcome = "raises"
                 THEN /\ HookEnds(d, HttpError(500, "geocoding_failed"))
                      /\ UNCHANGED <<db_segments, db_locations>>
                 ELSE IF added /\ db_locations /= <<>>
                 THEN /\ HookEnds(d, HttpError(500, "integrity_error"))
                      /\ UNCHANGED <<db_segments, db_locations>>
                 ELSE /\ HookEnds(d, HookOk(d))
                      /\ db_segments' = db_segments \o SegmentRows(chunk_row[1].id,
                                                                   hook_label[d],
                                                                   hook_kept[d])
                      /\ db_locations' = IF added
                                         THEN Append(db_locations,
                                                     LocationRow(chunk_row[1].id, outcome))
                                         ELSE db_locations
    /\ hook_session' = [hook_session EXCEPT ![d] = FALSE]
    /\ UNCHANGED <<hookInputs, hook_extracting, hook_embeddings, hook_label, hook_kept>>
    /\ UNCHANGED <<mapVars, matchVars, pipelineVars, enrollVars, buildVars, moreVars>>

\* lines 259-278 and the exit of session_scope: Location.chunk_id is unique, so the
\* commit of a second location row fails, the session rolls back and the request
\* ends with the IntegrityError
Geocode(d) ==
    /\ hook_pc[d] = "geocode"
    /\ \E outcome \in GeocodeOutcomes :
          LET added == outcome = "address"
          IN  /\ hook_location' = [hook_location EXCEPT ![d] = added]
              /\ IF added /\ db_locations /= <<>>
                 THEN /\ HookEnds(d, HttpError(500, "integrity_error"))
                      /\ UNCHANGED <<db_segments, db_locations>>
                 ELSE /\ HookEnds(d, HookOk(d))
                      /\ db_segments' = db_segments \o SegmentRows(chunk_row[1].id,
                                                                   hook_label[d],
                                                                   hook_kept[d])
                      /\ db_locations' = IF added
                                         THEN Append(db_locations,
                                                     LocationRow(chunk_row[1].id, outcome))
                                         ELSE db_locations
    /\ hook_session' = [hook_session EXCEPT ![d] = FALSE]
    /\ UNCHANGED <<hookInputs, hook_extracting, hook_embeddings, hook_label, hook_kept>>
    /\ UNCHANGED <<mapVars, matchVars, pipelineVars, enrollVars, buildVars, moreVars>>

(***************************************************************************)
(* Inputs of assemblyai_webhook.                                           *)
(***************************************************************************)
HookNoLongSpan == <<Word(0, 500, "A", "Hi"), Word(1500, 2000, "A", "there")>>

HookOneSpeaker == <<Word(0, 600, "A", "Hello"), Word(1100, 2000, "A", "there")>>

HookTwoSpeakers ==
    <<Word(0, 1200, "A", "Hello!"), Word(1300, 2500, "B", "Nope.."),
      Word(3000, 3400, "A", "Hi"), Word(5000, 6200, "A", "Goodbye")>>

HookGapAtLimit ==
    <<Word(0, 1000, "B", "Listen"), Word(1500, 2500, "B", "to me"),
      Word(3001, 4001, "B", "please"), Word(4100, 5200, "A", "Hello!")>>

HookUnsorted ==
    <<Word(4000, 5000, "A", "second"), Word(0, 1000, "A", "first!"),
      Word(6000, 7000, "B", "other."), Word(2000, 3000, "A", "third.")>>

\* the longest span of A is exactly 1000 ms, that of B 999 ms
HookSpanAtMinimum ==
    <<Word(0, 400, "A", "Hello"), Word(600, 1000, "A", "there"),
      Word(2000, 2999, "B", "Nope..")>>

\* words that end before an earlier word of their run has ended
HookOverlapping ==
    <<Word(0, 1000, "A", "Hello!"), Word(600, 700, "A", "uh"),
      Word(2000, 2500, "B", "Nope"), Word(2400, 5000, "B", "never"), Word(2600, 2700, "B", "no")>>

\* A has a span of 1800 ms, but each of its segments is too short to be kept
HookKeptNothing == <<Word(0, 600, "A", "Hi"), Word(1200, 1800, "A", "yo")>>

HookWordLists == {<<>>, HookNoLongSpan, HookOneSpeaker, HookTwoSpeakers, HookGapAtLimit,
                  HookUnsorted, HookSpanAtMinimum, HookOverlapping, HookKeptNothing}

\* what the audio yields for the labels: against the enrollment <<1, 0>> the
\* similarities are 1.00, 0.00, 0.60 and NaN
HookAudio == {<<<<"A", a>>, <<"B", b>>>> : a \in {<<1, 0>>, <<0, 1>>}, b \in {<<3, 4>>, <<0, 0>>}}

\* embedding_vector is <<>> when the column is empty
HookEnrollment == <<[embedding_vector |-> <<1, 0>>]>>

HookStart ==
    /\ inference_pipeline = <<>>
    /\ loads = 0
    /\ db_segments = <<>>
    /\ db_locations = <<>>
    /\ hook_pc = [d \in Deliveries |-> "start"]
    /\ hook_session = [d \in Deliveries |-> FALSE]
    /\ hook_extracting = [d \in Deliveries |-> FALSE]
    /\ hook_label = [d \in Deliveries |-> None]
    /\ hook_kept = [d \in Deliveries |-> <<>>]
    /\ hook_embeddings = [d \in Deliveries |-> <<>>]
    /\ hook_location = [d \in Deliveries |-> FALSE]
    /\ hook_response = [d \in Deliveries |-> [status |-> "none"]]

InitHook ==
    /\ \/ /\ payload_status = "completed"
          /\ chunk_row \in {<<[id |-> 1, gps |-> g]>> : g \in BOOLEAN}
          /\ enrollment_row = HookEnrollment
          /\ transcript_words \in HookWordLists
          /\ audio_exists = TRUE
          /\ audio_embedding \in HookAudio
          /\ HUGGINGFACE_TOKEN \in BOOLEAN
       \/ /\ payload_status \in {"completed", "error", "queued"}
          /\ chunk_row \in {<<>>, <<[id |-> 1, gps |-> TRUE]>>}
          /\ enrollment_row \in {<<>>, <<[embedding_vector |-> <<>>]>>, HookEnrollment}
          /\ transcript_words = HookTwoSpeakers
          /\ audio_exists \in BOOLEAN
          /\ audio_embedding = <<<<"A", <<1, 0>>>>, <<"B", <<3, 4>>>>>>
          /\ HUGGINGFACE_TOKEN = TRUE
    /\ HookStart
    /\ MapIdle
    /\ MatchIdle
    /\ EnrollIdle
    /\ BuildIdle
    /\ MoreIdle

NextHook ==
    \E d \in Deliveries :
        \/ Receive(d)
        \/ Lookup(d)
        \/ Fetch(d)
        \/ Extract(d)
        \/ Persist(d)
        \/ Geocode(d)

SpecHook == InitHook /\ [][NextHook]_vars


(***************************************************************************)
(* upload_enrollment and complete_enrollment, one request r each.          *)
(* complete_enrollment is a plain def, which the framework runs on a       *)
(* thread of its pool; upload_enrollment is a coroutine without any await, *)
(* so the event loop runs one upload at a time, next to the pool threads.  *)
(* get_inference_pipeline is taken line by line: the test of line 22, the  *)
(* token check of line 28, the load and assignment of lines 36-42 and the  *)
(* return of line 46 are separate steps of a thread.                       *)
(***************************************************************************)
MaxRequests == 2

Requests == 1..MaxRequests

reqInputs == <<req_kind, req_audio>>

ReqEnds(r, resp) ==
    /\ req_response' = [req_response EXCEPT ![r] = resp]
    /\ req_pc' = [req_pc EXCEPT ![r] = "done"]
    /\ req_session' = [req_session EXCEPT ![r] = FALSE]
    /\ req_extracting' = [req_extracting EXCEPT ![r] = FALSE]

ReqGoes(r, pc) ==
    /\ req_pc' = [req_pc EXCEPT ![r] = pc]
    /\ UNCHANGED req_response

UploadRunning ==
    \E r \in Requests : req_kind[r] = "upload" /\ req_pc[r] \notin {"start", "done"}

\* enrollment.py 29-42 and 96-109: the session opens; complete_enrollment
\* answers 400 when the audio file is missing
OpenSession(r) ==
    /\ req_pc[r] = "start"
    /\ req_kind[r] = "upload" => ~UploadRunning
    /\ IF req_kind[r] = "complete" /\ ~req_audio[r]
       THEN /\ ReqEnds(r, HttpError(400, "no_audio"))
       ELSE /\ ReqGoes(r, "call_extract")
            /\ req_session' = [req_session EXCEPT ![r] = TRUE]
            /\ UNCHANGED req_extracting
    /\ UNCHANGED <<reqInputs, req_handle, db_enrollments>>
    /\ UNCHANGED <<mapVars, matchVars, pipelineVars, hookVars, buildVars, moreVars>>

\* enrollment.py 46 and 113, speaker_verification.py 59: extract_embedding starts
CallExtract(r) ==
    /\ req_pc[r] = "call_extract"
    /\ ReqGoes(r, "pipeline_test")
    /\ req_extracting' = [req_extracting EXCEPT ![r] = TRUE]
    /\ UNCHANGED <<reqInputs, req_session, req_handle, db_enrollments>>
    /\ UNCHANGED <<mapVars, matchVars, pipelineVars, hookVars, buildVars, moreVars>>

\* speaker_verification.py 22: if _inference_pipeline is None
PipelineTest(r) ==
    /\ req_pc[r] = "pipeline_test"
    /\ IF inference_pipeline = <<>>
       THEN ReqGoes(r, "pipeline_token")
       ELSE ReqGoes(r, "pipeline_return")
    /\ UNCHANGED <<reqInputs, req_session, req_extracting, req_handle, db_enrollments>>
    /\ UNCHANGED <<mapVars, matchVars, pipelineVars, hookVars, buildVars, moreVars>>

\* speaker_verification.py 28-34: the ValueError, which both routes turn into
\* HTTPException 500 (enrollment.py 71-73, 116-121); the session rolls back
PipelineToken(r) ==
    /\ req_pc[r] = "pipeline_token"
    /\ IF ~HUGGINGFACE_TOKEN
       THEN ReqEnds(r, HttpError(500, "model_unavailable"))
       ELSE /\ ReqGoes(r, "pipeline_load")
            /\ UNCHANGED <<req_session, req_extracting>>
    /\ UNCHANGED <<reqInputs, req_handle, db_enrollments>>
    /\ UNCHANGED <<mapVars, matchVars, pipelineVars, hookVars, buildVars, moreVars>>

\* speaker_verification.py 36-44: login, Inference(...), assignment of the global
PipelineLoad(r) ==
    /\ req_pc[r] = "pipeline_load"
    /\ loads' = loads + 1
    /\ inference_pipeline' = <<loads + 1>>
    /\ ReqGoes(r, "pipeline_return")
    /\ UNCHANGED HUGGINGFACE_TOKEN
    /\ UNCHANGED <<reqInputs, req_session, req_extracting, req_handle, db_enrollments>>
    /\ UNCHANGED <<mapVars, matchVars, hookVars, buildVars, moreVars>>

\* speaker_verification.py 46: return _inference_pipeline, the global as it is now
PipelineReturn(r) ==
    /\ req_pc[r] = "pipeline_return"
    /\ req_handle' = [req_handle EXCEPT ![r] = inference_pipeline]
    /\ ReqGoes(r, "embed")
    /\ UNCHANGED <<reqInputs, req_session, req_extracting, db_enrollments>>
    /\ UNCHANGED <<mapVars, matchVars, pipelineVars, hookVars, buildVars, moreVars>>

\* speaker_verification.py 61-111, enrollment.py 47-69 and 114-142: the embedding
\* is computed, the enrollment row is added and flushed, the session commits
StoreEnrollment(r) ==
    /\ req_pc[r] = "embed"
    /\ ReqEnds(r, [status |-> "ok", enrollment_id |-> db_enrollments + 1])
    /\ db_enrollments' = db_enrollments + 1
    /\ UNCHANGED <<reqInputs, req_handle>>
    /\ UNCHANGED <<mapVars, matchVars, pipelineVars, hookVars, buildVars, moreVars>>

InitEnroll ==
    /\ req_kind \in [Requests -> {"upload", "complete"}]
    /\ req_audio \in [Requests -> BOOLEAN]
    /\ \A r \in Requests : req_kind[r] = "upload" => req_audio[r]
    /\ HUGGINGFACE_TOKEN \in BOOLEAN
    /\ inference_pipeline = <<>>
    /\ loads = 0
    /\ req_pc = [r \in Requests |-> "start"]
    /\ req_session = [r \in Requests |-> FALSE]
    /\ req_extracting = [r \in Requests |-> FALSE]
    /\ req_handle = [r \in Requests |-> <<>>]
    /\ req_response = [r \in Requests |-> [status |-> "none"]]
    /\ db_enrollments = 0
    /\ MapIdle
    /\ MatchIdle
    /\ HookIdle
    /\ BuildIdle
    /\ MoreIdle

NextEnroll ==
    \E r \in Requests :
        \/ OpenSession(r)
        \/ CallExtract(r)
        \/ PipelineTest(r)
        \/ PipelineToken(r)
        \/ PipelineLoad(r)
        \/ PipelineReturn(r)
        \/ StoreEnrollment(r)

SpecEnroll == InitEnroll /\ [][NextEnroll]_vars


(***************************************************************************)
(* The two copies of the segment builder on the same attributed words: the *)
(* one of map_enrollment_anchored (diarization_mapper.py:104-144) with     *)
(* chunk_start = 0, then the one of assemblyai_webhook                     *)
(* (webhooks.py:193-226); then the first one again, on the words of the    *)
(* segments it kept.                                                       *)
(***************************************************************************)
MaxBuildWords == 3

BuildSpans == {<<0, 1000>>, <<200, 300>>, <<1500, 2000>>, <<1501, 2500>>, <<2500, 3000>>,
               <<2501, 3500>>}

BuildWords == {Word(sp[1], sp[2], "A", t) : sp \in BuildSpans, t \in Texts}

\* longer lists: words in time order with a dropped segment between two kept
\* ones, and words out of time order
BuildInOrder ==
    <<Word(0, 1000, "A", "Hello!"), Word(1501, 1600, "A", "Hi"), Word(2101, 2600, "A", "Hello!"),
      Word(3100, 3600, "A", "Hello!")>>

BuildOutOfOrder ==
    <<Word(0, 1000, "A", "Hello!"), Word(1501, 2500, "A", "Hi"), Word(200, 300, "A", "Hi"),
      Word(1500, 2500, "A", "Hello!")>>

BuildLists == {BuildInOrder, BuildOutOfOrder}

\* the words of the segments that pass the filter, in order
RECURSIVE KeptWordsLoop(_, _)
KeptWordsLoop(segs, n) ==
    IF n = 0 THEN <<>>
    ELSE IF KeepSegment(SegEnd(segs[n], 0) - SegStart(segs[n], 0), SegText(segs[n]))
         THEN KeptWordsLoop(segs, n - 1) \o segs[n]
         ELSE KeptWordsLoop(segs, n - 1)

KeptWords(segs) == KeptWordsLoop(segs, Len(segs))

RunMapperLoop ==
    /\ build_pc = "call"
    /\ mapper_segments' = GroupSegments(build_words)
    /\ mapper_kept' = Kept(GroupSegments(build_words), 0)
    /\ refed_words' = KeptWords(GroupSegments(build_words))
    /\ build_pc' = "mapper"
    /\ UNCHANGED <<build_words, webhook_segments, webhook_kept, refed_kept>>
    /\ UNCHANGED <<mapVars, matchVars, pipelineVars, hookVars, enrollVars, moreVars>>

RunWebhookLoop ==
    /\ build_pc = "mapper"
    /\ webhook_segments' = HookGroupSegments(build_words)
    /\ webhook_kept' = HookKeptSegments(HookGroupSegments(build_words))
    /\ build_pc' = "done"
    /\ UNCHANGED <<build_words, mapper_segments, mapper_kept, refed_words, refed_kept>>
    /\ UNCHANGED <<mapVars, matchVars, pipelineVars, hookVars, enrollVars, moreVars>>

RunMapperLoopAgain ==
    /\ build_pc = "done"
    /\ refed_kept' = Kept(GroupSegments(refed_words), 0)
    /\ build_pc' = "refed"
    /\ UNCHANGED <<build_words, mapper_segments, webhook_segments, mapper_kept, webhook_kept,
                   refed_words>>
    /\ UNCHANGED <<mapVars, matchVars, pipelineVars, hookVars, enrollVars, moreVars>>

InitBuild ==
    /\ build_words \in SeqsUpTo(BuildWords, MaxBuildWords) \cup BuildLists
    /\ build_pc = "call"
    /\ mapper_segments = <<>>
    /\ webhook_segments = <<>>
    /\ mapper_kept = <<>>
    /\ webhook_kept = <<>>
    /\ refed_words = <<>>
    /\ refed_kept = <<>>
    /\ MapIdle
    /\ MatchIdle
    /\ PipelineIdle
    /\ HookIdle
    /\ EnrollIdle
    /\ MoreIdle

NextBuild ==
    \/ RunMapperLoop
    \/ RunWebhookLoop
    \/ RunMapperLoopAgain

SpecBuild == InitBuild /\ [][NextBuild]_vars


(***************************************************************************)
(* extract_embeddings_per_speaker applied to bounded word lists, the model *)
(* being loaded.  span_calls lists, in call order, the label and the span  *)
(* (start_ms, end_ms) of each call of extract_embedding_from_segment       *)
(* (speaker_verification.py:244-247).                                      *)
(***************************************************************************)
MaxSpanWords == 3

\* speaker_segments[speaker]
SpeakerWords(words, speaker) ==
    SpeakerSegments(words)[CHOOSE i \in DOMAIN SpeakerSegments(words) :
                               SpeakerSegments(words)[i][1] = speaker][2]

ExtractionCalls(words, min_duration_ms) ==
    [i \in DOMAIN LongEnough(words, min_duration_ms) |->
        <<LongEnough(words, min_duration_ms)[i],
          LongestSpan(SpeakerWords(words, LongEnough(words, min_duration_ms)[i])).longest_segment>>]

\* spans with gaps of 999 and 1000 ms after <<0, 1000>>, two words inside
\* <<500, 3000>>, and a span as long as the first
SpanSpans == {<<0, 1000>>, <<500, 3000>>, <<600, 700>>, <<1999, 2500>>, <<2000, 3000>>,
              <<4000, 5000>>}

SpanWordSet == {Word(sp[1], sp[2], spk, "word") : sp \in SpanSpans, spk \in Speakers}

SpanAudio == <<<<"A", <<1, 0>>>>, <<"B", <<3, 4>>>>>>

RunExtract ==
    /\ span_pc = "call"
    /\ LET got == ExtractEmbeddingsPerSpeaker(SpanAudio, span_words, span_min,
                                              inference_pipeline, HUGGINGFACE_TOKEN, loads)
       IN  /\ ~got.raised
           /\ span_embeddings' = got.speaker_embeddings
           /\ span_calls' = ExtractionCalls(span_words, span_min)
           /\ inference_pipeline' = got.pipeline
           /\ loads' = got.loads
    /\ span_pc' = "done"
    /\ UNCHANGED <<span_words, span_min, HUGGINGFACE_TOKEN>>
    /\ UNCHANGED <<mapVars, matchVars, hookVars, enrollVars, buildVars, submitVars, audioVars>>

\* min_duration_ms: 1000 at the webhook's call, 2000 by default
InitSpan ==
    /\ span_words \in SeqsUpTo(SpanWordSet, MaxSpanWords)
    /\ span_min \in {1000, 2000}
    /\ span_pc = "call"
    /\ span_calls = <<>>
    /\ span_embeddings = <<>>
    /\ HUGGINGFACE_TOKEN = TRUE
    /\ inference_pipeline = <<>>
    /\ loads = 0
    /\ MapIdle
    /\ MatchIdle
    /\ HookIdle
    /\ EnrollIdle
    /\ BuildIdle
    /\ SubmitIdle
    /\ AudioIdle

NextSpan == RunExtract

SpecSpan == InitSpan /\ [][NextSpan]_vars


(***************************************************************************)
(* process_chunk_transcription (chunks.py:16-69), the background task of   *)
(* a submitted chunk, and the completion webhook of the transcript it      *)
(* submits, up to the lookup of the chunk (webhooks.py:74-83).  The task   *)
(* stops at each await.  The provider owns the transcript from the moment  *)
(* it has accepted the request of submit_transcription, and may complete   *)
(* it and call the webhook at any time after that.                         *)
(***************************************************************************)
MaxChunks == 2

SubmittedChunks == 1..MaxChunks

\* the id the provider gives to the transcript of chunk c
TranscriptId(c) == 100 + c

SubGoes(c, pc) == sub_pc' = [sub_pc EXCEPT ![c] = pc]

subRest == <<mapVars, matchVars, pipelineVars, hookVars, enrollVars, buildVars, spanVars,
             audioVars>>

\* chunks.py:33-38: the file check
CheckFile(c) ==
    /\ sub_pc[c] = "start"
    /\ SubGoes(c, IF sub_file[c] THEN "upload" ELSE "returned")
    /\ UNCHANGED <<sub_file, sub_provider, sub_transcript_id, sub_hook_pc, sub_hook_response>>
    /\ UNCHANGED subRest

\* chunks.py:44: await upload_audio_file; an exception ends the task (line 68)
Upload(c) ==
    /\ sub_pc[c] = "upload"
    /\ \E uploaded \in BOOLEAN : SubGoes(c, IF uploaded THEN "submit" ELSE "failed")
    /\ UNCHANGED <<sub_file, sub_provider, sub_transcript_id, sub_hook_pc, sub_hook_response>>
    /\ UNCHANGED subRest

\* chunks.py:48, assemblyai_client.py:160-165: the request of
\* submit_transcription reaches the provider, which queues the transcript, or
\* fails; the task waits for the response
Submit(c) ==
    /\ sub_pc[c] = "submit"
    /\ \E accepted \in BOOLEAN :
          IF accepted
          THEN /\ sub_provider' = [sub_provider EXCEPT
                                     ![c] = <<[id |-> TranscriptId(c), status |-> "queued"]>>]
               /\ SubGoes(c, "submitted")
          ELSE /\ SubGoes(c, "failed")
               /\ UNCHANGED sub_provider
    /\ UNCHANGED <<sub_file, sub_transcript_id, sub_hook_pc, sub_hook_response>>
    /\ UNCHANGED subRest

\* chunks.py:55-66: the response has arrived; transcript_id = result.get('id') is
\* written to the chunk's row in a session of its own
StoreTranscriptId(c) ==
    /\ sub_pc[c] = "submitted"
    /\ sub_transcript_id' = [sub_transcript_id EXCEPT ![c] = <<sub_provider[c][1].id>>]
    /\ SubGoes(c, "returned")
    /\ UNCHANGED <<sub_file, sub_provider, sub_hook_pc, sub_hook_response>>
    /\ UNCHANGED subRest

\* the provider completes the transcript and sends the completion event
\* (assemblyai_client.py:155-156: webhook_url)
ProviderCompletes(c) ==
    /\ sub_provider[c] /= <<>>
    /\ sub_provider[c][1].status = "queued"
    /\ sub_provider' = [sub_provider EXCEPT ![c] = <<[@[1] EXCEPT !.status = "completed"]>>]
    /\ sub_hook_pc' = [sub_hook_pc EXCEPT ![c] = "received"]
    /\ UNCHANGED <<sub_file, sub_pc, sub_transcript_id, sub_hook_response>>
    /\ UNCHANGED subRest

\* webhooks.py:75-83: the chunk whose transcript_id is the event's, or 404
ChunkByTranscriptId(transcript_id) ==
    {c \in SubmittedChunks : sub_transcript_id[c] = <<transcript_id>>}

LookupChunk(c) ==
    /\ sub_hook_pc[c] = "received"
    /\ sub_hook_pc' = [sub_hook_pc EXCEPT ![c] = "looked_up"]
    /\ sub_hook_response' =
          [sub_hook_response EXCEPT
              ![c] = IF ChunkByTranscriptId(sub_provider[c][1].id) = {}
                     THEN HttpError(404, "No chunk found")
                     ELSE [status |-> "found",
                           chunk_id |-> CHOOSE k \in ChunkByTranscriptId(sub_provider[c][1].id) :
                                            TRUE]]
    /\ UNCHANGED <<sub_file, sub_pc, sub_provider, sub_transcript_id>>
    /\ UNCHANGED subRest

InitSubmit ==
    /\ sub_file \in [SubmittedChunks -> BOOLEAN]
    /\ sub_pc = [c \in SubmittedChunks |-> "start"]
    /\ sub_provider = [c \in SubmittedChunks |-> <<>>]
    /\ sub_transcript_id = [c \in SubmittedChunks |-> <<>>]
    /\ sub_hook_pc = [c \in SubmittedChunks |-> "none"]
    /\ sub_hook_response = [c \in SubmittedChunks |-> [status |-> "none"]]
    /\ MapIdle
    /\ MatchIdle
    /\ PipelineIdle
    /\ HookIdle
    /\ EnrollIdle
    /\ BuildIdle
    /\ SpanIdle
    /\ AudioIdle

NextSubmit ==
    \E c \in SubmittedChunks :
        \/ CheckFile(c)
        \/ Upload(c)
        \/ Submit(c)
        \/ StoreTranscriptId(c)
        \/ ProviderCompletes(c)
        \/ LookupChunk(c)

SpecSubmit == InitSubmit /\ [][NextSubmit]_vars


(***************************************************************************)
(* get_utterance_audio and get_chunk_audio (audio.py:18-106, 109-178), one *)
(* request: the session that identifies the requester and the chunk, then  *)
(* the reading of the chunk's audio file.                                  *)
(***************************************************************************)
MaxAudioChunks == 2

AudioChunkIds == 1..MaxAudioChunks

\* table users: two users and a uid without a row
AudioUsers == [u1 |-> <<1>>, u2 |-> <<2>>, ghost |-> <<>>]

AudioUids == DOMAIN AudioUsers

AudioUserIds == {AudioUsers[uid][1] : uid \in {u \in AudioUids : AudioUsers[u] /= <<>>}}

audInputs == <<aud_user_id, aud_chunk_owner, aud_utterance_chunk, aud_file, aud_request>>

audRest == <<mapVars, matchVars, pipelineVars, hookVars, enrollVars, buildVars, spanVars,
             submitVars>>

AudioEnds(code) ==
    /\ aud_response' = code
    /\ aud_pc' = "done"

AudioGoes(pc) ==
    /\ aud_pc' = pc
    /\ UNCHANGED aud_response

\* variant: the owner of the chunk is not compared with the requester
GetChunkAudio_NoOwnerCheck ==
    /\ aud_pc = "start"
    /\ aud_request.route = "chunk"
    /\ LET user  == aud_user_id[aud_request.uid]
           chunk == aud_chunk_owner[aud_request.id]
       IN  IF user = <<>> THEN AudioEnds(403)
           ELSE IF chunk = <<>> THEN AudioEnds(404)
           ELSE AudioGoes("file")
    /\ UNCHANGED <<audInputs, aud_read>>
    /\ UNCHANGED audRest

\* audio.py:125-143: the session of get_chunk_audio
GetChunkAudio ==
    /\ aud_pc = "start"
    /\ aud_request.route = "chunk"
    /\ LET user  == aud_user_id[aud_request.uid]
           chunk == aud_chunk_owner[aud_request.id]
       IN  IF user = <<>> THEN AudioEnds(403)
           ELSE IF chunk = <<>> THEN AudioEnds(404)
           ELSE IF chunk[1] /= user[1] THEN AudioEnds(403)
           ELSE AudioGoes("file")
    /\ UNCHANGED <<audInputs, aud_read>>
    /\ UNCHANGED audRest

\* audio.py:34-65: the session of get_utterance_audio
GetUtteranceAudio ==
    /\ aud_pc = "start"
    /\ aud_request.route = "utterance"
    /\ LET user      == aud_user_id[aud_request.uid]
           utterance == aud_utterance_chunk[aud_request.id]
       IN  IF user = <<>> THEN AudioEnds(403)
           ELSE IF utterance = <<>> THEN AudioEnds(404)
           ELSE IF aud_chunk_owner[utterance[1]] = <<>> THEN AudioEnds(404)
           ELSE IF aud_chunk_owner[utterance[1]][1] /= user[1] THEN AudioEnds(403)
           ELSE AudioGoes("file")
    /\ UNCHANGED <<audInputs, aud_read>>
    /\ UNCHANGED audRest

\* the chunk whose audio_url the session has read
AudioChunk ==
    IF aud_request.route = "chunk" THEN aud_request.id
    ELSE aud_utterance_chunk[aud_request.id][1]

\* audio.py:67-106 and 145-178: 404 when the file is missing; otherwise the file
\* is read and the bytes are returned, or the reading fails with 500
ServeAudio ==
    /\ aud_pc = "file"
    /\ IF ~aud_file[AudioChunk]
       THEN /\ AudioEnds(404)
            /\ UNCHANGED aud_read
       ELSE /\ aud_read' = aud_read \cup {AudioChunk}
            /\ \E served \in BOOLEAN : AudioEnds(IF served THEN 200 ELSE 500)
    /\ UNCHANGED audInputs
    /\ UNCHANGED audRest

InitAudio ==
    /\ aud_user_id = AudioUsers
    /\ aud_chunk_owner \in [AudioChunkIds -> {<<>>} \cup {<<u>> : u \in AudioUserIds}]
    /\ aud_utterance_chunk \in {[u \in AudioChunkIds |-> IF u \in S THEN <<u>> ELSE <<>>] :
                                   S \in SUBSET AudioChunkIds}
    /\ aud_file \in [AudioChunkIds -> BOOLEAN]
    /\ aud_request \in [route : {"utterance", "chunk"}, uid : AudioUids, id : AudioChunkIds]
    /\ aud_pc = "start"
    /\ aud_response = 0
    /\ aud_read = {}
    /\ MapIdle
    /\ MatchIdle
    /\ PipelineIdle
    /\ HookIdle
    /\ EnrollIdle
    /\ BuildIdle
    /\ SpanIdle
    /\ SubmitIdle

NextAudio ==
    \/ GetUtteranceAudio
    \/ GetChunkAudio
    \/ ServeAudio

SpecAudio == InitAudio /\ [][NextAudio]_vars


(***************************************************************************)
(* map_enrollment_anchored on word lists of two labels around the end of   *)
(* the enrollment window, with USE_MAJORITY_SPEAKER off and on.            *)
(***************************************************************************)
MaxLabelWords == 3

LabelSpans == {<<0, 500>>, <<0, 1000>>, <<1500, 2500>>, <<2500, 3500>>, <<3000, 3500>>}

LabelWords == {Word(sp[1], sp[2], spk, "Hello!") : sp \in LabelSpans, spk \in Speakers}

InitLabel ==
    /\ stt_words \in SeqsUpTo(LabelWords, MaxLabelWords)
    /\ enroll_ms = 1250
    /\ PAD_MS \in {0, 1000}
    /\ USE_MAJORITY_SPEAKER \in BOOLEAN
    /\ map_pc = "call"
    /\ map_result = [status |-> "none"]
    /\ user_words = <<>>
    /\ segments = <<>>
    /\ MatchIdle
    /\ PipelineIdle
    /\ HookIdle
    /\ EnrollIdle
    /\ BuildIdle
    /\ MoreIdle

SpecLabel == InitLabel /\ [][Next]_vars

(***************************************************************************)
(* Vocabulary of the properties of map_enrollment_anchored, stated on the  *)
(* inputs and the returned value.                                          *)
(***************************************************************************)
MapDone == map_pc = "done"

MapOk == MapDone /\ map_result.status = "ok"

HasReason(r, reason) == "reason" \in DOMAIN r /\ r.reason = reason

RegionStart == enroll_ms + PAD_MS

RECURSIVE SumDurations(_)
SumDurations(I) ==
    IF I = {} THEN 0
    ELSE LET i == CHOOSE i \in I : TRUE
         IN  (stt_words[i].end - stt_words[i].start) + SumDurations(I \ {i})

\* indices of the words of the enrollment window, and those of label l
EnrollmentIdx == {i \in DOMAIN stt_words : stt_words[i].start < enroll_ms}

EnrollmentSum(l) == SumDurations({i \in EnrollmentIdx : stt_words[i].speaker = l})

EnrollmentLabels == {stt_words[i].speaker : i \in EnrollmentIdx}

IsDominant(l) ==
    l \in EnrollmentLabels /\ \A m \in EnrollmentLabels : EnrollmentSum(m) <= EnrollmentSum(l)

\* the j-th segment of the grouping as an output segment
AsOutput(seg) ==
    [start_ms |-> seg[1].start - RegionStart,
     end_ms   |-> seg[Len(seg)].end - RegionStart,
     text     |-> SegText(seg)]

Passes(seg) ==
    /\ seg[Len(seg)].end - seg[1].start >= SEGMENT_MIN_MS
    /\ Len(SegText(seg)) >= SEGMENT_MIN_CHARS

PassingIdx == {j \in DOMAIN segments : Passes(segments[j])}

NthPassing(i) == CHOOSE j \in PassingIdx : Cardinality({k \in PassingIdx : k <= j}) = i

(***************************************************************************)
(* C1. For every word list, also one not sorted by start or with           *)
(* overlapping words, the kept segments are sorted by ascending start_ms,  *)
(* pairwise non-overlapping (end_ms <= next start_ms), and each has        *)
(* end_ms > start_ms.                                                      *)
(***************************************************************************)
C1_KeptSortedDisjoint ==
    MapOk =>
        LET kept == map_result.kept
        IN  /\ \A i \in DOMAIN kept : kept[i].end_ms > kept[i].start_ms
            /\ \A i \in DOMAIN kept : \A j \in DOMAIN kept :
                   i < j => /\ kept[i].start_ms <= kept[j].start_ms
                            /\ kept[i].end_ms <= kept[j].start_ms

(***************************************************************************)
(* C2. When the result is ok with user_label L, every kept segment is      *)
(* built only from words of label L that start at or after                 *)
(* enroll_ms + PAD_MS: every word of every grouped segment is such a word, *)
(* and every kept segment takes its bounds and text from one grouped       *)
(* segment.                                                                *)
(***************************************************************************)
C2_KeptOnlyFromUserWords ==
    MapOk =>
        /\ \A j \in DOMAIN segments : \A n \in DOMAIN segments[j] :
               /\ segments[j][n].speaker = map_result.user_label
               /\ segments[j][n].start >= RegionStart
               /\ \E i \in DOMAIN stt_words : stt_words[i] = segments[j][n]
        /\ \A i \in DOMAIN map_result.kept :
               \E j \in DOMAIN segments : map_result.kept[i] = AsOutput(segments[j])

\* a kept segment exists although another label speaks in the chunk region
C2_Witness ==
    /\ MapOk
    /\ map_result.kept /= <<>>
    /\ \E i \in DOMAIN stt_words :
           /\ stt_words[i].speaker /= map_result.user_label
           /\ stt_words[i].start >= RegionStart

C4_NoEnrollmentWords ==
    MapDone =>
        /\ HasReason(map_result, "no_enrollment_words") <=> (EnrollmentIdx = {})
        /\ HasReason(map_result, "no_enrollment_words") =>
               /\ map_result.status = "indeterminate"
               /\ DOMAIN map_result = {"status", "reason"}

\* words exist, none of them in the window
C4_Witness ==
    /\ MapDone
    /\ stt_words /= <<>>
    /\ HasReason(map_result, "no_enrollment_words")

(***************************************************************************)
(* C5. When the dominance check passes the result has status ok, never    *)
(* indeterminate; no grouped segment is empty, so that seg[0], seg[-1] and *)
(* the division by len(seg) cannot raise; kept is the empty list when no   *)
(* chunk-region word carries the selected label or when every grouped      *)
(* segment is filtered out.                                                *)
(***************************************************************************)
C5_OkAfterDominance ==
    (MapDone /\ EnrollmentIdx /= {}
       /\ \E l \in EnrollmentLabels :
              /\ IsDominant(l)
              /\ (EnrollmentSum(l) + 1) * EnrollDominanceDen > EnrollDominanceNum * enroll_ms)
    => /\ map_result.status = "ok"
       /\ DOMAIN map_result = {"status", "user_label", "kept"}
       /\ \A j \in DOMAIN segments : segments[j] /= <<>>
       /\ (\/ \A i \in DOMAIN stt_words :
                  ~(/\ stt_words[i].speaker = map_result.user_label
                    /\ stt_words[i].start >= RegionStart)
           \/ PassingIdx = {})
          => map_result.kept = <<>>

\* status ok with segments grouped and every one of them filtered out
C5_Witness ==
    /\ MapOk
    /\ segments /= <<>>
    /\ map_result.kept = <<>>

(***************************************************************************)
(* C6. A grouped segment is kept if and only if its duration is            *)
(* >= SEGMENT_MIN_MS and the length of its space-joined text is            *)
(* >= SEGMENT_MIN_CHARS; the kept list is exactly the passing segments, in *)
(* order, each with the bounds and text it had before filtering.           *)
(***************************************************************************)
C6_KeptIffBothPass ==
    MapOk =>
        /\ Len(map_result.kept) = Cardinality(PassingIdx)
        /\ \A i \in DOMAIN map_result.kept :
               map_result.kept[i] = AsOutput(segments[NthPassing(i)])

\* one segment dropped for its duration alone, one for its text alone, one kept
C6_Witness ==
    /\ MapOk
    /\ map_result.kept /= <<>>
    /\ \E j \in DOMAIN segments :
           /\ segments[j][Len(segments[j])].end - segments[j][1].start < SEGMENT_MIN_MS
           /\ Len(SegText(segments[j])) >= SEGMENT_MIN_CHARS
    /\ \E j \in DOMAIN segments :
           /\ segments[j][Len(segments[j])].end - segments[j][1].start >= SEGMENT_MIN_MS
           /\ Len(SegText(segments[j])) < SEGMENT_MIN_CHARS

(***************************************************************************)
(* C7. Every kept segment has start_ms = (start of its first word) -       *)
(* (enroll_ms + PAD_MS) and end_ms = (end of its last word) -              *)
(* (enroll_ms + PAD_MS), hence start_ms >= 0.                              *)
(***************************************************************************)
C7_KeptRebased ==
    MapOk =>
        \A i \in DOMAIN map_result.kept :
            LET seg == segments[NthPassing(i)]
            IN  /\ map_result.kept[i].start_ms = seg[1].start - (enroll_ms + PAD_MS)
                /\ map_result.kept[i].end_ms = seg[Len(seg)].end - (enroll_ms + PAD_MS)
                /\ map_result.kept[i].start_ms >= 0

\* a kept segment re-based by a region start that includes a pad
C7_Witness ==
    /\ MapOk
    /\ PAD_MS > 0
    /\ \E i \in DOMAIN map_result.kept : map_result.kept[i].start_ms > 0

(***************************************************************************)
(* C8 as stated. The anchored scenario (A = SPEAKER_00, B = SPEAKER_01,    *)
(* enroll_ms 3000, pad 1000): status ok, user_label A, and kept is exactly *)
(* one segment, of text "world again" and of duration 1500 ms.             *)
(***************************************************************************)
C8Scenario ==
    /\ MapDone
    /\ stt_words = TestKeepsUserSegments
    /\ enroll_ms = 3000
    /\ PAD_MS = 1000

C8_Duration1500 ==
    C8Scenario =>
        /\ map_result.status = "ok"
        /\ map_result.user_label = "SPEAKER_00"
        /\ Len(map_result.kept) = 1
        /\ map_result.kept[1].text = "world again"
        /\ map_result.kept[1].end_ms - map_result.kept[1].start_ms = 1500

(***************************************************************************)
(* C8 amended. In the scenario the one kept segment has text               *)
(* "world again" and duration 1600 ms (5400 to 7000, re-based to 1400 to   *)
(* 3000); "Hello" and "(other)" appear in no kept segment.                 *)
(***************************************************************************)
C8_Duration1600 ==
    C8Scenario =>
        /\ map_result.status = "ok"
        /\ map_result.user_label = "SPEAKER_00"
        /\ map_result.kept =
               << [start_ms |-> 1400, end_ms |-> 3000, text |-> "world again"] >>

C8_Witness == C8Scenario /\ map_result.status = "ok" /\ map_result.kept /= <<>>

(***************************************************************************)
(* Vocabulary of the properties of match_speaker_to_enrollment.            *)
(***************************************************************************)
SimilarityOf(i) == CosineSimilarity(enrollment_embedding, speaker_embeddings[i][2])

\* float comparison a > b
FloatGT(a, b) == ~a.nan /\ ~b.nan /\ a.v > b.v

\* the i-th label's similarity exceeds the threshold and none exceeds it
IsBestAboveThreshold(i) ==
    /\ FloatGT(SimilarityOf(i), [nan |-> FALSE, v |-> threshold])
    /\ \A j \in DOMAIN speaker_embeddings : ~FloatGT(SimilarityOf(j), SimilarityOf(i))

C10_EmptyDictReturnsNone ==
    (match_pc /= "call" /\ speaker_embeddings = <<>>) =>
        /\ match_pc = "returned"
        /\ match_result = None

(***************************************************************************)
(* Vocabulary of the properties of assemblyai_webhook.                     *)
(***************************************************************************)
StatusOf(r) == IF "status" \in DOMAIN r THEN r.status ELSE "http_error"

\* delivery d takes the step that ends its request
Ends(d) == hook_pc[d] /= "done" /\ hook_pc'[d] = "done"

StoresNothing == db_segments' = db_segments /\ db_locations' = db_locations

\* the embeddings, the matched label and the rows of one processing of the
\* transcript with the model loaded
ProcessingEmbeddings ==
    [i \in DOMAIN LongEnough(transcript_words, HOOK_MIN_DURATION_MS) |->
        <<LongEnough(transcript_words, HOOK_MIN_DURATION_MS)[i],
          EmbeddingOf(audio_embedding, LongEnough(transcript_words, HOOK_MIN_DURATION_MS)[i])>>]

ProcessingLabel ==
    MatchSpeakerToEnrollment(enrollment_row[1].embedding_vector, ProcessingEmbeddings,
                             HOOK_THRESHOLD).best_match

ProcessingRows ==
    SegmentRows(chunk_row[1].id, ProcessingLabel,
                HookKeptSegments(HookGroupSegments(HookUserWords(transcript_words,
                                                                 ProcessingLabel))))

\* C11: sequential redelivery: once segments of the chunk are committed, a
\* delivery that arrives afterwards passes the status check, ends at its
\* existence check with the normal response already_processed, and neither step
\* changes the stored segments or locations.
C11_RedeliveryIsNoOp ==
    [][\A d \in Deliveries :
          /\ (db_segments /= <<>> /\ hook_pc[d] = "start" /\ hook_pc'[d] /= "start")
                => (hook_pc'[d] = "lookup" /\ StoresNothing)
          /\ (db_segments /= <<>> /\ hook_pc[d] = "lookup" /\ hook_pc'[d] /= "lookup")
                => /\ hook_pc'[d] = "done"
                   /\ StatusOf(hook_response'[d]) = "already_processed"
                   /\ hook_response'[d].existing_segments = Len(db_segments)
                   /\ StoresNothing]_vars

\* a delivery was answered already_processed after another one stored segments
\* and a location
C11_Witness ==
    /\ db_segments /= <<>>
    /\ db_locations /= <<>>
    /\ \E d \in Deliveries : StatusOf(hook_response[d]) = "ok"
    /\ \E d \in Deliveries : StatusOf(hook_response[d]) = "already_processed"

\* C12: for every interleaving of the deliveries, the segments stored for the
\* chunk are those of exactly one processing and no segment is stored twice.
C12_StoredOnce ==
    /\ \A i \in DOMAIN db_segments : \A j \in DOMAIN db_segments :
          i /= j => db_segments[i] /= db_segments[j]
    /\ db_segments /= <<>> => db_segments = ProcessingRows

\* no label with a long enough span has a similarity above the webhook's threshold
NoLabelClears ==
    \A i \in DOMAIN ProcessingEmbeddings :
        LET similarity == CosineSimilarity(enrollment_row[1].embedding_vector,
                                           ProcessingEmbeddings[i][2])
        IN  similarity.nan \/ similarity.v <= HOOK_THRESHOLD

ModelAvailable == HUGGINGFACE_TOKEN \/ inference_pipeline /= <<>>

IgnoredWith(r, reason) ==
    /\ StatusOf(r) = "ignored"
    /\ HasReason(r, reason)
    /\ "http_error" \notin DOMAIN r

\* C13: the step of a delivery that meets an expected non-match outcome (status
\* other than completed; a fetched transcript without words; no label with a
\* span of at least 1000 ms; no label above the threshold, the model being
\* available) ends the request with the normal response ignored and the
\* outcome's reason code, and stores no segment and no location.
C13_NonMatchIsIgnored ==
    [][\A d \in Deliveries :
          /\ (hook_pc[d] = "start" /\ hook_pc'[d] /= "start" /\ payload_status /= "completed")
                => /\ Ends(d)
                   /\ IgnoredWith(hook_response'[d], "transcript_status_" \o payload_status)
                   /\ StoresNothing
          /\ (hook_pc[d] = "fetch" /\ Ends(d) /\ transcript_words = <<>>
                /\ hook_response'[d] /= HttpError(500, "fetch_failed"))
                => /\ IgnoredWith(hook_response'[d], "no_words")
                   /\ StoresNothing
          /\ (hook_pc[d] = "extract" /\ hook_pc'[d] /= "extract"
                /\ LongEnough(transcript_words, HOOK_MIN_DURATION_MS) = <<>>)
                => /\ Ends(d)
                   /\ IgnoredWith(hook_response'[d], "no_valid_speakers")
                   /\ StoresNothing
          /\ (hook_pc[d] = "extract" /\ hook_pc'[d] /= "extract"
                /\ LongEnough(transcript_words, HOOK_MIN_DURATION_MS) /= <<>>
                /\ ModelAvailable /\ NoLabelClears)
                => /\ Ends(d)
                   /\ IgnoredWith(hook_response'[d], "no_matching_speaker")
                   /\ StoresNothing]_vars

\* every delivery found no label above the threshold, one similarity being NaN:
\* all were ignored and nothing is stored
C13_Witness ==
    /\ \A d \in Deliveries : IgnoredWith(hook_response[d], "no_matching_speaker")
    /\ \E i \in DOMAIN audio_embedding : audio_embedding[i][2] = <<0, 0>>
    /\ db_segments = <<>>
    /\ db_locations = <<>>

\* C16: with HUGGINGFACE_TOKEN absent, every call of get_inference_pipeline
\* raises and leaves the cached handle unset, so no load ever happens; a
\* delivery that reaches the embedding extraction of a label ends with the
\* uncaught error (a 500), never with ok or ignored, and no segment is stored.
C16_NoTokenIsHardFailure ==
    ~HUGGINGFACE_TOKEN =>
        /\ inference_pipeline = <<>>
        /\ loads = 0
        /\ db_segments = <<>>
        /\ \A d \in Deliveries :
              /\ hook_extracting[d] =>
                    /\ hook_pc[d] = "done"
                    /\ hook_response[d] = HttpError(500, "model_unavailable")
              /\ StatusOf(hook_response[d]) /= "ok"
              /\ (hook_pc[d] = "done"
                    /\ LongEnough(transcript_words, HOOK_MIN_DURATION_MS) /= <<>>)
                    => StatusOf(hook_response[d]) \notin {"ok", "ignored"}

\* without the token, two deliveries in a row reached the extraction and both failed
C16_Witness ==
    /\ ~HUGGINGFACE_TOKEN
    /\ \A d \in Deliveries :
          /\ hook_extracting[d]
          /\ hook_response[d] = HttpError(500, "model_unavailable")
    /\ inference_pipeline = <<>>

\* C17: every response of the webhook has exactly one status among ok, ignored
\* and already_processed; a response that is not ok carries a reason code and no
\* kept segments; an ok response carries the accepted label and no reason.
C17_ResultShape ==
    \A d \in Deliveries :
        LET r == hook_response[d]
        IN  (hook_pc[d] = "done" /\ "http_error" \notin DOMAIN r) =>
                /\ StatusOf(r) \in {"ok", "ignored", "already_processed"}
                /\ StatusOf(r) /= "ok" =>
                      /\ "reason" \in DOMAIN r
                      /\ "kept_count" \notin DOMAIN r
                /\ StatusOf(r) = "ok" =>
                      /\ "user_label" \in DOMAIN r
                      /\ r.user_label /= None
                      /\ "reason" \notin DOMAIN r

\* the words of the transcript whose speaker is label, in transcript order
WordsOf(label) ==
    LET Test(w) == w.speaker = label
    IN  SelectSeq(transcript_words, Test)

\* row is built from the run i..j of the words of its label, timestamps unchanged
BuiltFromRun(row, i, j) ==
    LET ws == SubSeq(WordsOf(row.speaker_label), i, j)
    IN  /\ row.start_ms = ws[1].start
        /\ row.end_ms = ws[Len(ws)].end
        /\ row.text = JoinText(ws, Len(ws))

\* C19: every segment row stored by the webhook has kept = True and the label
\* the matcher returned to the delivery that stored it, which is the one label
\* above the threshold with the best similarity; the row is built from a run of
\* consecutive words of that label only, with start_ms the first word's start
\* and end_ms the last word's end as they are in the transcript (no re-basing).
C19_StoredFromMatchedLabel ==
    \A k \in DOMAIN db_segments :
        LET row == db_segments[k]
        IN  /\ row.kept = TRUE
            /\ row.chunk_id = chunk_row[1].id
            /\ row.speaker_label = ProcessingLabel
            /\ \E d \in Deliveries :
                  /\ hook_label[d] = row.speaker_label
                  /\ StatusOf(hook_response[d]) = "ok"
            /\ \E i \in DOMAIN WordsOf(row.speaker_label) :
                  \E j \in DOMAIN WordsOf(row.speaker_label) :
                      i <= j /\ BuiltFromRun(row, i, j)

\* rows of label B are stored while label A also speaks, one of them starting
\* after time 0
C19_Witness ==
    /\ \E k \in DOMAIN db_segments :
          db_segments[k].speaker_label = "B" /\ db_segments[k].start_ms > 0
    /\ \E i \in DOMAIN transcript_words : transcript_words[i].speaker = "A"
    /\ Len(db_segments) >= 2

(***************************************************************************)
(* Properties of the enrollment routes and of get_inference_pipeline.      *)
(***************************************************************************)
\* C14: the embedding model is loaded at most once per process, and all the
\* callers of get_inference_pipeline get the same handle.
C14_LoadedAtMostOnce ==
    /\ loads <= 1
    /\ \A r1 \in Requests : \A r2 \in Requests :
          (req_handle[r1] /= <<>> /\ req_handle[r2] /= <<>>)
              => req_handle[r1] = req_handle[r2]

\* C15: no database session is open while the embedding extraction of the
\* request runs, in the enrollment routes as in the webhook.
C15_NoSessionWhileExtracting ==
    /\ \A r \in Requests : ~(req_session[r] /\ req_extracting[r])
    /\ \A d \in DOMAIN hook_pc : ~(hook_session[d] /\ hook_pc[d] = "extract")

(***************************************************************************)
(* Properties of cosine_similarity.                                        *)
(***************************************************************************)
IsZeroVector(a) == Dot(a, a) = 0

\* C18: cosine_similarity with a zero vector as either argument raises, so a
\* call of match_speaker_to_enrollment that returned has compared no zero
\* vector and has received no NaN.
C18_ZeroVectorRaises ==
    match_pc = "returned" =>
        \A i \in DOMAIN speaker_embeddings :
            /\ ~IsZeroVector(enrollment_embedding)
            /\ ~IsZeroVector(speaker_embeddings[i][2])
            /\ ~SimilarityOf(i).nan

(***************************************************************************)
(* Properties of the grouping loops.                                       *)
(***************************************************************************)
RECURSIVE Flatten(_, _)
Flatten(segs, n) == IF n = 0 THEN <<>> ELSE Flatten(segs, n - 1) \o segs[n]

Gap(prev, cur) == cur.start - prev.end

\* segs cuts ws, in order, exactly at the gaps longer than SEGMENT_GAP_MS
CutAtLongGaps(segs, ws) ==
    /\ Flatten(segs, Len(segs)) = ws
    /\ \A k \in DOMAIN segs : segs[k] /= <<>>
    /\ \A k \in DOMAIN segs : \A i \in 1..(Len(segs[k]) - 1) :
          Gap(segs[k][i], segs[k][i + 1]) <= SEGMENT_GAP_MS
    /\ \A k \in 1..(Len(segs) - 1) :
          Gap(segs[k][Len(segs[k])], segs[k + 1][1]) > SEGMENT_GAP_MS

\* C20: both grouping loops, walking the attributed words in input order, start
\* a new segment exactly when the current word starts more than SEGMENT_GAP_MS
\* after the previous word's end: the segments are the words in order, each
\* gap inside a segment is <= SEGMENT_GAP_MS (an equal gap does not split), and
\* the gap between a segment's last word and the next segment's first is larger.
C20_SplitExactlyOnLongGap ==
    /\ build_pc \in {"mapper", "done"} => CutAtLongGaps(mapper_segments, build_words)
    /\ build_pc = "done" => CutAtLongGaps(webhook_segments, build_words)

\* both loops kept a gap of exactly 500 ms inside a segment and split at 501 ms
C20_Witness ==
    /\ build_pc = "done"
    /\ Len(build_words) = 3
    /\ Gap(build_words[1], build_words[2]) = SEGMENT_GAP_MS
    /\ Gap(build_words[2], build_words[3]) = SEGMENT_GAP_MS + 1
    /\ Len(mapper_segments) = 2
    /\ Len(webhook_segments) = 2
    /\ Len(webhook_segments[1]) = 2

(***************************************************************************)
(* Properties of extract_embeddings_per_speaker.                           *)
(***************************************************************************)
\* the words of label in span_words, in input order
SpanWordsOf(label) ==
    LET Test(w) == w.speaker = label
    IN  SelectSeq(span_words, Test)

\* word i of ws starts a run: it is the first word, or at least 1000 ms after
\* the end of the word before it
StartsRun(ws, i) == i = 1 \/ ws[i].start - ws[i - 1].end >= SPAN_GAP_MS

\* the maximal runs of ws, as pairs <<first index, last index>>
Runs(ws) ==
    {r \in (DOMAIN ws) \X (DOMAIN ws) :
        /\ r[1] <= r[2]
        /\ StartsRun(ws, r[1])
        /\ \A i \in (r[1] + 1)..r[2] : ~StartsRun(ws, i)
        /\ r[2] = Len(ws) \/ StartsRun(ws, r[2] + 1)}

\* the span of a run: from its first word's start to its last word's end, or to
\* the latest end of its words
SpanToLastEnd(ws, r) == <<ws[r[1]].start, ws[r[2]].end>>

MaxEnd(ws, r) == CHOOSE e \in {ws[i].end : i \in r[1]..r[2]} :
                     \A i \in r[1]..r[2] : ws[i].end <= e

SpanToMaxEnd(ws, r) == <<ws[r[1]].start, MaxEnd(ws, r)>>

Duration(span) == span[2] - span[1]

\* span is the span of the earliest among the longest runs of ws
IsLongestRunSpan(ws, span, SpanOf(_, _)) ==
    \E r \in Runs(ws) :
        /\ span = SpanOf(ws, r)
        /\ \A q \in Runs(ws) : Duration(SpanOf(ws, q)) <= Duration(span)
        /\ \A q \in Runs(ws) : q[1] < r[1] => Duration(SpanOf(ws, q)) < Duration(span)

\* C21: for every label, the span handed to the embedding extraction is the
\* span of the earliest of the label's longest maximal runs (gaps < 1000 ms,
\* the run open at the end of the scan included), whether the end of a run is
\* read as its last word's end or as the latest end of its words.
C21_LongestRunIsExtracted ==
    span_pc = "done" =>
        \A k \in DOMAIN span_calls :
            LET ws == SpanWordsOf(span_calls[k][1])
            IN  \/ IsLongestRunSpan(ws, span_calls[k][2], SpanToLastEnd)
                \/ IsLongestRunSpan(ws, span_calls[k][2], SpanToMaxEnd)

\* the labels of the transcript
TranscriptLabels == {transcript_words[i].speaker : i \in DOMAIN transcript_words}

\* delivery d takes the step that extracts the embeddings, the model answering
Extracts(d) ==
    /\ hook_pc[d] = "extract"
    /\ hook_pc'[d] /= "extract"
    /\ StatusOf(hook_response'[d]) /= "http_error"

\* after the step, the labels with an embedding are those with a maximal run
\* whose span lasts at least the minimum
EmbeddedIffLongEnough(d, SpanOf(_, _)) ==
    \A label \in TranscriptLabels :
        label \in Keys(hook_embeddings'[d])
            <=> \E r \in Runs(WordsOf(label)) :
                    Duration(SpanOf(WordsOf(label), r)) >= HOOK_MIN_DURATION_MS

\* C22: the extraction of a delivery gives an embedding to exactly the labels
\* whose longest span lasts at least min_duration_ms (1000 ms here), under one
\* reading of the end of a span for all the labels; the matched label is a label
\* with an embedding, and every stored segment carries such a label.
C22_EmbeddingIffLongEnough ==
    [][\A d \in Deliveries :
          /\ Extracts(d) =>
                /\ \/ EmbeddedIffLongEnough(d, SpanToLastEnd)
                   \/ EmbeddedIffLongEnough(d, SpanToMaxEnd)
                /\ hook_label'[d] /= None => hook_label'[d] \in Keys(hook_embeddings'[d])
          /\ \A i \in DOMAIN db_segments' :
                \E e \in Deliveries :
                    db_segments'[i].speaker_label \in Keys(hook_embeddings'[e])]_vars

\* the same with the span the scan itself tracks as the longest
EmbeddedIffTrackedSpanLongEnough ==
    [][\A d \in Deliveries :
          /\ Extracts(d) =>
                /\ \A label \in TranscriptLabels :
                      label \in Keys(hook_embeddings'[d])
                          <=> Duration(LongestSpan(WordsOf(label)).longest_segment)
                                  >= HOOK_MIN_DURATION_MS
                /\ hook_label'[d] /= None => hook_label'[d] \in Keys(hook_embeddings'[d])
          /\ \A i \in DOMAIN db_segments' :
                \E e \in Deliveries :
                    db_segments'[i].speaker_label \in Keys(hook_embeddings'[e])]_vars

(***************************************************************************)
(* Properties of the label selection and of the two regions of             *)
(* map_enrollment_anchored.                                                *)
(***************************************************************************)
\* indices of the words starting at or after enroll_ms + PAD_MS, and those of label l
SubjectIdx == {i \in DOMAIN stt_words : stt_words[i].start >= RegionStart}

SubjectIdxOf(l) == {i \in SubjectIdx : stt_words[i].speaker = l}

SubjectLabels == {stt_words[i].speaker : i \in SubjectIdx}

FirstIdx(I) == CHOOSE i \in I : \A j \in I : i <= j

\* the enrollment-dominant label: the largest summed duration in the window, the
\* first of them to appear in the window when several are equal
DominantLabel ==
    CHOOSE l \in EnrollmentLabels :
        /\ IsDominant(l)
        /\ \A m \in EnrollmentLabels :
              IsDominant(m) =>
                  FirstIdx({i \in EnrollmentIdx : stt_words[i].speaker = l})
                      <= FirstIdx({i \in EnrollmentIdx : stt_words[i].speaker = m})

\* l has the most words in the subject region, and no label with as many words
\* is encountered before it
IsMajorityLabel(l) ==
    /\ l \in SubjectLabels
    /\ \A m \in SubjectLabels :
          /\ Cardinality(SubjectIdxOf(m)) <= Cardinality(SubjectIdxOf(l))
          /\ (m /= l /\ Cardinality(SubjectIdxOf(m)) = Cardinality(SubjectIdxOf(l)))
                => FirstIdx(SubjectIdxOf(l)) < FirstIdx(SubjectIdxOf(m))

C24_EveryWordInOneRegion ==
    MapOk =>
        /\ \A i \in DOMAIN stt_words : (i \in EnrollmentIdx) /= (i \in SubjectIdx)
        /\ Len(user_words) =
              Cardinality({i \in DOMAIN stt_words \ EnrollmentIdx :
                              stt_words[i].speaker = map_result.user_label})

(***************************************************************************)
(* Properties of the two copies of the segment builder.                    *)
(***************************************************************************)
\* C25: the builder run again on the words of the segments it kept, taken in
\* order as one list, keeps exactly the segments it kept the first time (same
\* start_ms, end_ms and text).
C25_RefeedingKeepsTheSame ==
    build_pc = "refed" => refed_kept = mapper_kept

\* the same for words in time order: each word starts at or after the start of
\* the word before it
BuildInTimeOrder ==
    \A i \in 1..(Len(build_words) - 1) : build_words[i].start <= build_words[i + 1].start

RefeedingKeepsTheSameInTimeOrder ==
    (build_pc = "refed" /\ BuildInTimeOrder) => refed_kept = mapper_kept

\* C26: on the same attributed words, the builder of map_enrollment_anchored
\* with region start 0 and the builder of the webhook keep the same segments:
\* same start_ms, end_ms and text, in the same order.
C26_BuildersAgree ==
    build_pc \in {"done", "refed"} => webhook_kept = mapper_kept

\* both builders dropped a segment and kept two, one of them made of two words
C26_Witness ==
    /\ build_pc = "done"
    /\ Len(webhook_kept) = 2
    /\ Len(mapper_kept) = 2
    /\ Len(webhook_segments) = 3
    /\ \E k \in DOMAIN webhook_kept : webhook_kept[k].text = "Hello! Hello!"

(***************************************************************************)
(* Properties of the submission of a chunk.                                *)
(***************************************************************************)
\* C27: the completion webhook of a transcript that the task of a chunk has
\* submitted finds the chunk: its lookup by transcript_id never ends with 404.
C27_SubmittedChunkIsFound ==
    \A c \in SubmittedChunks :
        sub_hook_pc[c] = "looked_up" => StatusOf(sub_hook_response[c]) = "found"

\* once the task has stored the transcript id, the webhook finds the chunk
FoundOnceStored ==
    [][\A c \in SubmittedChunks :
          (sub_hook_pc[c] = "received" /\ sub_hook_pc'[c] = "looked_up"
              /\ sub_transcript_id[c] /= <<>>)
             => (StatusOf(sub_hook_response'[c]) = "found"
                    /\ sub_hook_response'[c].chunk_id = c)]_vars

(***************************************************************************)
(* Properties of redelivery and of the persistence step.                   *)
(***************************************************************************)
\* the request of delivery d has ended with ok or ignored
Attributed(d) ==
    /\ hook_pc[d] = "done"
    /\ StatusOf(hook_response[d]) \in {"ok", "ignored"}

SameOutcome(d, e) ==
    /\ StatusOf(hook_response[d]) = StatusOf(hook_response[e])
    /\ hook_response[d] = hook_response[e]
    /\ hook_label[d] = hook_label[e]
    /\ hook_kept[d] = hook_kept[e]

\* delivery d takes the step of its existence check, the chunk being found
ChecksExistence(d) == hook_pc[d] = "lookup" /\ hook_pc'[d] /= "lookup" /\ chunk_row /= <<>>

\* C28: a delivery answers already_processed exactly when, at its existence
\* check, the chunk has at least one stored segment, and at no other step; a
\* delivery that finds no stored segment, in particular after a delivery that
\* ended ok with kept_count = 0 or ignored, goes on to the attribution; and
\* any two deliveries that ended ok or ignored have the same status, reason,
\* label and kept segments.
C28_RedeliveryRecomputesTheSame ==
    [][\A d \in Deliveries :
          /\ ChecksExistence(d) =>
                /\ StatusOf(hook_response'[d]) = "already_processed" <=> db_segments /= <<>>
                /\ (db_segments = <<>> /\ enrollment_row /= <<>>
                       /\ enrollment_row[1].embedding_vector /= <<>>) => hook_pc'[d] = "fetch"
          /\ (StatusOf(hook_response'[d]) = "already_processed"
                 /\ StatusOf(hook_response[d]) /= "already_processed") => ChecksExistence(d)
          /\ \A e \in Deliveries : (Attributed(d) /\ Attributed(e))' => SameOutcome(d, e)']_vars

\* two deliveries ended ok with kept_count = 0: the second ran the attribution
\* again, and nothing is stored
C28_Witness ==
    /\ \A d \in Deliveries :
          /\ hook_pc[d] = "done"
          /\ StatusOf(hook_response[d]) = "ok"
          /\ hook_response[d].kept_count = 0
          /\ hook_label[d] = "A"
    /\ db_segments = <<>>

\* delivery d takes the step that ends the persist session after reverse_geocode
Geocodes(d) == hook_pc[d] = "geocode" /\ hook_pc'[d] = "done"

\* C29: when reverse_geocode gave no address (it failed, timed out or found
\* nothing), the step commits the kept segments, adds no location and the
\* delivery answers ok; the persistence step without geocoding does the same;
\* a Location row is stored only for a chunk with GPS coordinates that had no
\* Location, from an address returned, and the chunk has at most one Location.
C29_GeocodingNeverBlocks ==
    [][\A d \in Deliveries :
          /\ (Geocodes(d) /\ ~hook_location'[d]) =>
                /\ StatusOf(hook_response'[d]) = "ok"
                /\ db_segments' = db_segments \o SegmentRows(chunk_row[1].id, hook_label[d],
                                                             hook_kept[d])
                /\ db_locations' = db_locations
          /\ (hook_pc[d] = "persist" /\ hook_pc'[d] = "done") =>
                /\ StatusOf(hook_response'[d]) = "ok"
                /\ db_segments' = db_segments \o SegmentRows(chunk_row[1].id, hook_label[d],
                                                             hook_kept[d])
                /\ db_locations' = db_locations
          /\ (Geocodes(d) /\ db_locations' /= db_locations) =>
                /\ chunk_row[1].gps
                /\ db_locations = <<>>
                /\ hook_location'[d]
          /\ db_locations' /= db_locations => \E e \in Deliveries : Geocodes(e)
          /\ Len(db_locations') <= 1]_vars

\* a delivery of a chunk with GPS coordinates and no location ended ok with its
\* segments stored although reverse_geocode gave no address
C29_Witness ==
    \E d \in Deliveries :
        /\ hook_pc[d] = "done"
        /\ StatusOf(hook_response[d]) = "ok"
        /\ chunk_row[1].gps
        /\ db_locations = <<>>
        /\ db_segments = SegmentRows(chunk_row[1].id, hook_label[d], hook_kept[d])
        /\ db_segments /= <<>>

(***************************************************************************)
(* Properties of the audio routes.                                         *)
(***************************************************************************)
\* the chunk the request is about, <<>> when the utterance or the chunk is missing
RequestedChunk ==
    IF aud_request.route = "chunk"
    THEN IF aud_chunk_owner[aud_request.id] = <<>> THEN <<>> ELSE <<aud_request.id>>
    ELSE IF aud_utterance_chunk[aud_request.id] = <<>> THEN <<>>
    ELSE IF aud_chunk_owner[aud_utterance_chunk[aud_request.id][1]] = <<>> THEN <<>>
    ELSE aud_utterance_chunk[aud_request.id]

\* the requesting uid is that of a user, and the chunk is that user's
RequesterOwnsChunk ==
    /\ aud_user_id[aud_request.uid] /= <<>>
    /\ RequestedChunk /= <<>>
    /\ aud_chunk_owner[RequestedChunk[1]] = aud_user_id[aud_request.uid]

\* C30: a response 200 is given, and an audio file is read, only when the
\* requesting uid is that of an existing user whose id is the chunk's user_id;
\* any other request ends with 403, or with 404 when the utterance or the chunk
\* does not exist, and no audio file has been read.
C30_AudioOnlyToOwner ==
    /\ aud_read /= {} => RequesterOwnsChunk
    /\ aud_read \subseteq {c \in AudioChunkIds : RequestedChunk = <<c>>}
    /\ aud_pc = "done" =>
          /\ aud_response = 200 => (RequesterOwnsChunk /\ aud_read /= {})
          /\ ~RequesterOwnsChunk =>
                \/ aud_response = 403
                \/ aud_response = 404 /\ RequestedChunk = <<>>

\* a user asked for the audio of an existing chunk of another user, whose file
\* exists: the answer is 403 and no file was read
C30_Witness ==
    /\ aud_pc = "done"
    /\ aud_response = 403
    /\ aud_user_id[aud_request.uid] /= <<>>
    /\ RequestedChunk /= <<>>
    /\ aud_file[RequestedChunk[1]]
    /\ aud_read = {}

====
